---- MODULE Spec2Model ----
(***************************************************************************)
(* A model of rupc, a single-pass compiler from a small Pascal to the      *)
(* WebAssembly text format: the byte buffer, the lexical state machine,    *)
(* the scope model, the recursive-descent parser/analyser and the WAT      *)
(* emitter.                                                                *)
(*                                                                         *)
(* Bytes are one-character strings ("LF" is the line feed, "NUL" the byte  *)
(* 0 that the buffer returns past the end of the input).  A lexeme, a name *)
(* or a message argument is a sequence of such bytes.                      *)
(***************************************************************************)
EXTENDS Integers, Sequences, FiniteSets, TLC

(***************************************************************************)
(* Bytes and the character classes of char::is_whitespace, is_numeric,     *)
(* is_alphabetic (restricted to ASCII).                                    *)
(***************************************************************************)
NUL == "NUL"
LF == "LF"
SPC == " "

LowerSeq ==
  << "a", "b", "c", "d", "e", "f", "g", "h", "i", "j", "k", "l", "m",
     "n", "o", "p", "q", "r", "s", "t", "u", "v", "w", "x", "y", "z" >>

UpperSeq ==
  << "A", "B", "C", "D", "E", "F", "G", "H", "I", "J", "K", "L", "M",
     "N", "O", "P", "Q", "R", "S", "T", "U", "V", "W", "X", "Y", "Z" >>

Lowers == { LowerSeq[i] : i \in 1..Len(LowerSeq) }

Uppers == { UpperSeq[i] : i \in 1..Len(UpperSeq) }

Digits == { "0", "1", "2", "3", "4", "5", "6", "7", "8", "9" }

IsWhitespace(c) == c \in { SPC, LF, "TAB" }

IsNumeric(c) == c \in Digits

IsAlphabetic(c) == c \in Lowers \cup Uppers

IsAlphanumeric(c) == IsAlphabetic(c) \/ IsNumeric(c)

ToLower(c) ==
  IF c \in Uppers
  THEN LowerSeq[CHOOSE i \in 1..Len(UpperSeq) : UpperSeq[i] = c]
  ELSE c

ToLowerSeq(s) == [ i \in 1..Len(s) |-> ToLower(s[i]) ]

Min(a, b) == IF a < b THEN a ELSE b

(***************************************************************************)
(* position.rs                                                             *)
(***************************************************************************)
FilePosition(l, c) == [ line |-> l, col |-> c ]

START_POSITION == FilePosition(1, 1)

(***************************************************************************)
(* tokenization/token.rs.  A token is a record of its variant k and a      *)
(* sequence v: the variant's name for O, R, K and P, the lexeme for Id,    *)
(* Number and Literal, empty for EOF and Unknown.                          *)
(***************************************************************************)
Token(k, v) == [ k |-> k, v |-> v ]

TO(n) == Token("O", << n >>)

TR(n) == Token("R", << n >>)

TK(n) == Token("K", << n >>)

TP(n) == Token("P", << n >>)

TId(lexeme) == Token("Id", lexeme)

TNumber(lexeme) == Token("Number", lexeme)

TLiteral(lexeme) == Token("Literal", lexeme)

TEOF == Token("EOF", << >>)

TUnknown == Token("Unknown", << >>)

(***************************************************************************)
(* error/error.rs: CompilationError::new.  The message is its fixed text   *)
(* and the name formatted into it.                                         *)
(***************************************************************************)
Msg(text, arg) == [ text |-> text, arg |-> arg ]

CompilationError(kind, pos, msg) == [ kind |-> kind, pos |-> pos, msg |-> msg ]

(***************************************************************************)
(* tokenization/buffer.rs: SimpleBuffer.  An Option is the empty sequence  *)
(* (None) or a one-element sequence (Some).                                *)
(***************************************************************************)
SimpleBuffer(data) ==
  [ storage        |-> data,
    pos            |-> 0,
    saved_pos      |-> << >>,
    file_pos       |-> START_POSITION,
    saved_file_pos |-> << >>,
    prev_file_pos  |-> START_POSITION ]

\* A read that leaves prev_file_pos as it was.
BufNextKeepsPrev(b) ==
  IF b.pos >= Len(b.storage)
  THEN [ b |-> [ b EXCEPT !.pos = @ + 1 ], c |-> NUL ]
  ELSE [ b |-> [ b EXCEPT
                   !.pos = @ + 1,
                   !.file_pos = IF b.storage[b.pos + 1] = LF
                                THEN FilePosition(@.line + 1, 1)
                                ELSE FilePosition(@.line, @.col + 1) ],
         c |-> b.storage[b.pos + 1] ]

\* SimpleBuffer::next: the buffer after the read, and the byte read.
BufNext(b) ==
  IF b.pos >= Len(b.storage)
  THEN [ b |-> [ b EXCEPT !.pos = @ + 1 ], c |-> NUL ]
  ELSE LET c == b.storage[b.pos + 1]
       IN  [ b |-> [ b EXCEPT
                       !.pos = @ + 1,
                       !.prev_file_pos = b.file_pos,
                       !.file_pos = IF c = LF
                                    THEN FilePosition(@.line + 1, 1)
                                    ELSE FilePosition(@.line, @.col + 1) ],
             c |-> c ]

\* One turn of the loop of SimpleBuffer::back.
BufBack1(b) ==
  LET p == b.pos - 1
  IN  IF p < Len(b.storage)
      THEN IF b.storage[p + 1] # LF
           THEN [ b EXCEPT !.pos = p, !.file_pos.col = @ - 1 ]
           ELSE [ b EXCEPT !.pos = p, !.file_pos.line = @ - 1 ]
      ELSE [ b EXCEPT !.pos = p ]

RECURSIVE BufBack(_, _)
BufBack(b, count) ==
  IF count = 0 THEN b ELSE BufBack(BufBack1(b), count - 1)

BufRange(b, start, end) ==
  SubSeq(b.storage, start + 1, Min(end, Len(b.storage)))

BufShift(b) == b.pos

BufPos(b) == b.file_pos

BufPrevPos(b) == b.prev_file_pos

BufSavePos(b) ==
  [ b EXCEPT !.saved_pos = << b.pos >>, !.saved_file_pos = << b.file_pos >> ]

BufRestorePos(b) ==
  IF b.saved_pos # << >>
  THEN [ b EXCEPT !.pos = b.saved_pos[1],
                  !.saved_pos = << >>,
                  !.saved_file_pos = << >> ]
  ELSE b

(***************************************************************************)
(* tokenization/token_stream.rs: TokenStream.                              *)
(***************************************************************************)
ReservedNames ==
  { "program", "procedure", "record", "if", "then", "else", "of", "while",
    "do", "begin", "end", "var", "type", "array", "for", "repeat", "with",
    "until", "to", "downto" }

ReservedOperators == { "div", "xor", "or", "and", "not" }

\* The spelling of a reserved word, as a sequence of bytes.
Spell(w) ==
  CASE w = "program"   -> << "p", "r", "o", "g", "r", "a", "m" >>
    [] w = "procedure" -> << "p", "r", "o", "c", "e", "d", "u", "r", "e" >>
    [] w = "record"    -> << "r", "e", "c", "o", "r", "d" >>
    [] w = "if"        -> << "i", "f" >>
    [] w = "then"      -> << "t", "h", "e", "n" >>
    [] w = "else"      -> << "e", "l", "s", "e" >>
    [] w = "of"        -> << "o", "f" >>
    [] w = "while"     -> << "w", "h", "i", "l", "e" >>
    [] w = "do"        -> << "d", "o" >>
    [] w = "begin"     -> << "b", "e", "g", "i", "n" >>
    [] w = "end"       -> << "e", "n", "d" >>
    [] w = "var"       -> << "v", "a", "r" >>
    [] w = "type"      -> << "t", "y", "p", "e" >>
    [] w = "array"     -> << "a", "r", "r", "a", "y" >>
    [] w = "for"       -> << "f", "o", "r" >>
    [] w = "repeat"    -> << "r", "e", "p", "e", "a", "t" >>
    [] w = "with"      -> << "w", "i", "t", "h" >>
    [] w = "until"     -> << "u", "n", "t", "i", "l" >>
    [] w = "to"        -> << "t", "o" >>
    [] w = "downto"    -> << "d", "o", "w", "n", "t", "o" >>
    [] w = "div"       -> << "d", "i", "v" >>
    [] w = "xor"       -> << "x", "o", "r" >>
    [] w = "or"        -> << "o", "r" >>
    [] w = "and"       -> << "a", "n", "d" >>
    [] w = "not"       -> << "n", "o", "t" >>

\* The operator a reserved operator word stands for.
OperatorOf(w) ==
  CASE w = "div" -> "IntegerDivide"
    [] w = "xor" -> "Xor"
    [] w = "or"  -> "Or"
    [] w = "and" -> "And"
    [] w = "not" -> "Not"

\* The token of a reserved word.
ReservedToken(w) == IF w \in ReservedNames THEN TK(w) ELSE TO(OperatorOf(w))

\* TokenStream::new: the entries of the reserved_words table.
ReservedTable ==
  { << Spell(w), ReservedToken(w) >> : w \in ReservedNames \cup ReservedOperators }

\* The value of the one entry of a set of entries, if it has one.
EntryOf(entries) ==
  IF entries = { } THEN << >> ELSE << (CHOOSE e \in entries : TRUE)[2] >>

\* reserved_words.get(lexeme)
reserved_words(lexeme) == EntryOf({ e \in ReservedTable : e[1] = lexeme })

TokenStream(buffer) ==
  [ buffer |-> buffer, state |-> 1, lexeme_start |-> 0 ]

TsPos(ts) == BufPos(ts.buffer)

TsPrevPos(ts) == BufPrevPos(ts.buffer)

\* The lexeme in the case the file has it in.
TsLexemeAsWritten(ts) ==
  BufRange(ts.buffer, ts.lexeme_start, BufShift(ts.buffer))

\* TokenStream::lexeme
TsLexeme(ts) ==
  ToLowerSeq(BufRange(ts.buffer, ts.lexeme_start, BufShift(ts.buffer)))

\* TokenStream::number
TsNumber(ts) == TNumber(TsLexeme(ts))

\* TokenStream::identifier
IdentifierOf(lexeme, reserved) ==
  IF reserved # << >> THEN reserved[1] ELSE TId(lexeme)

TsIdentifier(ts) == IdentifierOf(TsLexeme(ts), reserved_words(TsLexeme(ts)))

ButLast(lexeme) == SubSeq(lexeme, 1, Len(lexeme) - 1)

\* TokenStream::literal: the lexeme without the closing quote.
TsLiteral(ts) == TLiteral(ButLast(TsLexeme(ts)))

\* TokenStream::error
TsError(ts, text) ==
  CompilationError("LexicalError", BufPrevPos(ts.buffer), Msg(text, << >>))

\* TokenStream::skip_whitespace
\* (r is what the read of its loop's turn returned.)
RECURSIVE SkipWhitespaceOn(_)
SkipWhitespaceOn(r) ==
  IF ~IsWhitespace(r.c) THEN BufBack(r.b, 1) ELSE SkipWhitespaceOn(BufNext(r.b))

BufSkipWhitespace(b) == SkipWhitespaceOn(BufNext(b))

\* TokenStream::skip_comment
RECURSIVE SkipCommentOn(_)
SkipCommentOn(r) ==
  IF r.c = "}" \/ r.c = NUL THEN BufNext(r.b).b ELSE SkipCommentOn(BufNext(r.b))

BufSkipComment(b) == SkipCommentOn(BufNext(b))

\* What one turn of the loop of TokenStream::next yields: nothing yet, a
\* token (Ok) or a lexical error (Err).
Going == [ kind |-> "none", tok |-> TUnknown, err |-> << >> ]

Ok(t) == [ kind |-> "tok", tok |-> t, err |-> << >> ]

Err(e) == [ kind |-> "err", tok |-> TUnknown, err |-> << e >> ]

Step(ts, out) == [ ts |-> ts, out |-> out ]

\* The tokens state 1 returns at once for a one-byte symbol.
SingleByteToken(c) ==
  CASE c = "=" -> TR("Eq")
    [] c = "+" -> TO("Plus")
    [] c = "-" -> TO("Minus")
    [] c = "/" -> TO("Divide")
    [] c = "*" -> TO("Multiply")
    [] c = "," -> TP("Comma")
    [] c = ";" -> TP("Semicolon")
    [] c = "(" -> TP("Lbracket")
    [] c = ")" -> TP("Rbracket")
    [] c = "[" -> TP("Lsqbracket")
    [] c = "]" -> TP("Rsqbracket")
    [] c = NUL -> TEOF

SingleBytes == { "=", "+", "-", "/", "*", ",", ";", "(", ")", "[", "]", NUL }

\* State 1 of TokenStream::next, the byte c read at offset pos.
TsState1(ts, pos, c) ==
  IF IsWhitespace(c)
  THEN Step([ ts EXCEPT !.buffer = BufSkipWhitespace(@) ], Going)
  ELSE IF c = "{"
  THEN Step([ ts EXCEPT !.buffer = BufSkipComment(@) ], Going)
  ELSE LET t == [ ts EXCEPT !.lexeme_start = pos ]
       IN  IF IsNumeric(c) THEN Step([ t EXCEPT !.state = 4 ], Going)
           ELSE IF IsAlphabetic(c) THEN Step([ t EXCEPT !.state = 2 ], Going)
           ELSE IF c = "." THEN Step([ t EXCEPT !.state = 17 ], Going)
           ELSE IF c = ":" THEN Step([ t EXCEPT !.state = 20 ], Going)
           ELSE IF c = "'"
                THEN Step([ t EXCEPT !.lexeme_start = BufShift(t.buffer),
                                     !.state = 13 ], Going)
           ELSE IF c = "<" THEN Step([ t EXCEPT !.state = 23 ], Going)
           ELSE IF c = ">" THEN Step([ t EXCEPT !.state = 24 ], Going)
           ELSE IF c \in SingleBytes THEN Step(t, Ok(SingleByteToken(c)))
           ELSE Step(t, Err(TsError(t, "Unexpected character")))

NumberAt(ts) == Step(ts, Ok(TsNumber(ts)))

\* State 5 on a second '.': buffer.back(2), state = 1, the number.
Back2(ts) == NumberAt([ ts EXCEPT !.buffer = BufBack(@, 2), !.state = 1 ])

\* The other states of TokenStream::next; back1 is the stream after
\* buffer.back(1) and state = 1, to1 the stream after state = 1.
StateN(ts, c, back1, to1) ==
      CASE ts.state = 2 ->
             IF ~IsAlphanumeric(c) /\ c # "_"
             THEN Step(back1, Ok(TsIdentifier(back1)))
             ELSE Step(ts, Going)
        [] ts.state = 4 ->
             IF c = "." THEN Step([ ts EXCEPT !.state = 5 ], Going)
             ELSE IF ~IsNumeric(c) THEN Step(back1, Ok(TsNumber(back1)))
             ELSE Step(ts, Going)
        [] ts.state = 5 ->
             IF IsNumeric(c) THEN Step([ ts EXCEPT !.state = 6 ], Going)
             ELSE IF c = "." THEN Back2(ts)
             ELSE Step(ts, Going)
        [] ts.state = 6 ->
             IF ToLower(c) = "e" THEN Step([ ts EXCEPT !.state = 7 ], Going)
             ELSE IF ~IsNumeric(c) THEN Step(back1, Ok(TsNumber(back1)))
             ELSE Step(ts, Going)
        [] ts.state = 7 ->
             IF IsNumeric(c) THEN Step([ ts EXCEPT !.state = 9 ], Going)
             ELSE IF c = "+" \/ c = "-"
                  THEN Step([ ts EXCEPT !.state = 8 ], Going)
             ELSE Step(ts, Going)
        [] ts.state = 8 ->
             IF IsNumeric(c) THEN Step([ ts EXCEPT !.state = 9 ], Going)
             ELSE Step(to1, Err(TsError(to1,
                    "Sign in scientific notation must be followed by a number")))
        [] ts.state = 9 ->
             IF ~IsNumeric(c) THEN Step(ts, Ok(TsNumber(ts)))
             ELSE Step(ts, Going)
        [] ts.state = 13 ->
             IF c = "'" THEN Step(to1, Ok(TsLiteral(to1)))
             ELSE IF c = LF
                  THEN Step(to1, Err(TsError(to1,
                         "string literal cannot span multiple lines")))
             ELSE Step(ts, Going)
        [] ts.state = 17 ->
             IF c = "." THEN Step(to1, Ok(TP("Range")))
             ELSE Step(back1, Ok(TP("Dot")))
        [] ts.state = 20 ->
             IF c = "=" THEN Step(to1, Ok(TO("Assign")))
             ELSE Step(back1, Ok(TP("Colon")))
        [] ts.state = 23 ->
             IF c = ">" THEN Step(to1, Ok(TR("Ne")))
             ELSE IF c = "=" THEN Step(to1, Ok(TR("Le")))
             ELSE Step(back1, Ok(TR("Lt")))
        [] ts.state = 24 ->
             IF c = "=" THEN Step(to1, Ok(TR("Ge")))
             ELSE Step(back1, Ok(TR("Gt")))
        [] OTHER -> Step(to1, Err(TsError(to1, "unknown error")))

\* (The states with no buffer.back(1): the byte read after a one-character
\* symbol stays consumed.)
TsStateNNoRewind(ts, c) ==
  StateN(ts, c, [ ts EXCEPT !.state = 1 ], [ ts EXCEPT !.state = 1 ])

TsStateN(ts, c) ==
  StateN(ts, c, [ ts EXCEPT !.buffer = BufBack(@, 1), !.state = 1 ],
         [ ts EXCEPT !.state = 1 ])

\* A turn of the loop, r being what its read returned.
StepOn(ts, r) ==
  IF ts.state = 1
  THEN TsState1([ ts EXCEPT !.buffer = r.b ], BufShift(ts.buffer), r.c)
  ELSE TsStateN([ ts EXCEPT !.buffer = r.b ], r.c)

\* One turn of the loop of TokenStream::next: read a byte, act on the state.
TsStep(ts) == StepOn(ts, BufNext(ts.buffer))

(***************************************************************************)
(* TokenStream::next as a whole.  Its loop returns only from a turn that   *)
(* yields a token or an error.  In states 5, 7 and 13 a read of NUL leaves *)
(* the state as it is, and every read at or past the end of the input is   *)
(* NUL: from there the loop never returns (it only counts pos upwards).    *)
(***************************************************************************)
Hang == [ kind |-> "hang", tok |-> TUnknown, err |-> << >> ]

TsSpins(ts) ==
  /\ ts.state \in { 5, 7, 13 }
  /\ BufShift(ts.buffer) >= Len(ts.buffer.storage)

RECURSIVE TsNext(_)

\* (r is what the turn before returned.)
NextOn(r) == IF r.out.kind = "none" THEN TsNext(r.ts) ELSE r

TsNext(ts) == IF TsSpins(ts) THEN Step(ts, Hang) ELSE NextOn(TsStep(ts))

\* After a Number returned in state 9 at the end of the input, every later
\* next() returns that same Number: state 9 is never left and never rewinds.
TsStuck(ts) ==
  /\ ts.state = 9
  /\ BufShift(ts.buffer) >= Len(ts.buffer.storage)

\* The loop of TokenStream::available; an error of next() leaves through `?`.
RECURSIVE TsAvailableLoop(_, _)

\* (r is what the next() of the turn returned.)
AvailableOn(r, token_set) ==
  IF r.out.kind # "tok"
  THEN [ ts |-> r.ts, kind |-> r.out.kind, result |-> FALSE, err |-> r.out.err ]
  ELSE IF r.out.tok = TEOF
       THEN [ ts |-> r.ts, kind |-> "ok", result |-> TEOF \in token_set,
              err |-> << >> ]
       ELSE IF r.out.tok \in token_set
            THEN [ ts |-> r.ts, kind |-> "ok", result |-> TRUE, err |-> << >> ]
            ELSE IF TsStuck(r.ts)
                 THEN [ ts |-> r.ts, kind |-> "hang", result |-> FALSE,
                        err |-> << >> ]
                 ELSE TsAvailableLoop(r.ts, token_set)

TsAvailableLoop(ts, token_set) == AvailableOn(TsNext(ts), token_set)

\* The end of available(): restore_pos() and Ok(result), unless the loop
\* was left through `?` or never.
AvailableEnd(r) ==
  IF r.kind = "ok" THEN [ r EXCEPT !.ts.buffer = BufRestorePos(@) ] ELSE r

\* TokenStream::available: kind is "ok" (Ok(result)), "err" or "hang".
TsAvailable(ts, token_set) ==
  AvailableEnd(TsAvailableLoop([ ts EXCEPT !.buffer = BufSavePos(@) ], token_set))

(***************************************************************************)
(* semantics/type_.rs and semantics/identifier.rs.  A map (HashMap) is a   *)
(* function on the set of its keys; a list (LinkedList) is a sequence.     *)
(***************************************************************************)
EmptyMap == << >>

MapPut(m, k, v) == [ x \in (DOMAIN m) \cup { k } |-> IF x = k THEN v ELSE m[x] ]

\* An extend that keeps the entries m1 has.
MapExtendKeeps(m1, m2) ==
  [ x \in (DOMAIN m1) \cup (DOMAIN m2) |-> IF x \in DOMAIN m1 THEN m1[x] ELSE m2[x] ]

\* HashMap::extend: the entries of m2 overwrite those of m1.
MapExtend(m1, m2) ==
  [ x \in (DOMAIN m1) \cup (DOMAIN m2) |-> IF x \in DOMAIN m2 THEN m2[x] ELSE m1[x] ]

Type(t, fields, enum) == [ t |-> t, fields |-> fields, enum |-> enum ]

TypeInteger == Type("Integer", EmptyMap, << >>)

TypeReal == Type("Real", EmptyMap, << >>)

TypeChar == Type("Char", EmptyMap, << >>)

TypeUnknown == Type("Unknown", EmptyMap, << >>)

TypeRecord(fields) == Type("Record", fields, << >>)

TypeScalar(enum) == Type("Scalar", EmptyMap, enum)

boolean ==
  TypeScalar(<< << "f", "a", "l", "s", "e" >>, << "t", "r", "u", "e" >> >>)

Identifier(k, name, t, types) == [ k |-> k, name |-> name, t |-> t, types |-> types ]

IdVariable(name, t) == Identifier("Variable", name, t, << >>)

IdType(t) == Identifier("Type", << >>, t, << >>)

IdProcedure(types) == Identifier("Procedure", << >>, TypeUnknown, types)

IdUnknown == Identifier("Unknown", << >>, TypeUnknown, << >>)

(***************************************************************************)
(* semantics/scope.rs.  The chain of scopes is a sequence of identifier    *)
(* maps, the innermost scope last; outer_scope is the sequence without its *)
(* last element.                                                           *)
(***************************************************************************)
NChar == << "c", "h", "a", "r" >>
NInteger == << "i", "n", "t", "e", "g", "e", "r" >>
NReal == << "r", "e", "a", "l" >>
NBoolean == << "b", "o", "o", "l", "e", "a", "n" >>
NWritelnInt == << "w", "r", "i", "t", "e", "l", "n", "_", "i", "n", "t" >>
NWritelnReal == << "w", "r", "i", "t", "e", "l", "n", "_", "r", "e", "a", "l" >>

\* impl Default for Scope
ScopeDefault ==
  << [ n \in { NChar, NInteger, NReal, NBoolean, NWritelnInt, NWritelnReal } |->
         CASE n = NChar        -> IdType(TypeChar)
           [] n = NInteger     -> IdType(TypeInteger)
           [] n = NReal        -> IdType(TypeReal)
           [] n = NBoolean     -> IdType(boolean)
           [] n = NWritelnInt  -> IdProcedure(<< TypeInteger >>)
           [] n = NWritelnReal -> IdProcedure(<< TypeReal >>) ] >>

ScopeWithOuter(scope, identifiers) == Append(scope, identifiers)

ScopeEmptyWithOuter(scope) == ScopeWithOuter(scope, EmptyMap)

\* Scope::collapse: the outer scope; None (the empty sequence) has none.
ScopeCollapse(scope) == SubSeq(scope, 1, Len(scope) - 1)

\* A put that fails when the name is bound in any scope of the chain.
ScopePutUnbound(scope, name, id) ==
  IF \E i \in 1..Len(scope) : name \in DOMAIN scope[i]
  THEN [ scope |-> scope, ok |-> FALSE, id |-> name ]
  ELSE [ scope |-> [ scope EXCEPT ![Len(scope)] = MapPut(@, name, id) ],
         ok |-> TRUE, id |-> name ]

\* Scope::put: ok is FALSE for Err(ScopeError::new(name)).
ScopePut(scope, name, id) ==
  IF name \in DOMAIN scope[Len(scope)]
  THEN [ scope |-> scope, ok |-> FALSE, id |-> name ]
  ELSE [ scope |-> [ scope EXCEPT ![Len(scope)] = MapPut(@, name, id) ],
         ok |-> TRUE, id |-> name ]

\* Scope::extend, the items in the order the iterator yields them.
RECURSIVE ScopeExtend(_, _)
ScopeExtend(scope, items) ==
  IF items = << >>
  THEN [ scope |-> scope, ok |-> TRUE, id |-> << >> ]
  ELSE LET r == ScopePut(scope, items[1][1], items[1][2])
       IN  IF r.ok THEN ScopeExtend(r.scope, Tail(items)) ELSE r

\* (A get that walks the chain from the outermost scope inwards.)
RECURSIVE ScopeGetOutermost(_, _)
ScopeGetOutermost(scope, name) ==
  IF scope = << >> THEN << >>
  ELSE IF name \in DOMAIN scope[1]
       THEN << scope[1][name] >>
       ELSE ScopeGetOutermost(Tail(scope), name)

\* Scope::get: None is the empty sequence, Some(id) is << id >>.
RECURSIVE ScopeGet(_, _)
ScopeGet(scope, name) ==
  IF scope = << >> THEN << >>
  ELSE IF name \in DOMAIN scope[Len(scope)]
       THEN << scope[Len(scope)][name] >>
       ELSE ScopeGet(ScopeCollapse(scope), name)

(***************************************************************************)
(* translation/output.rs.  A fragment (an element of parts) is what was    *)
(* formatted into it: the instruction, the type names, the name or value,  *)
(* and the indentation writenl prepends (-1 for write, which prepends      *)
(* none).  A fragment contains TEMPLATE iff one of its type names is it.   *)
(***************************************************************************)
TEMPLATE == "UNKNOWN"

Part(op, types, name) == [ op |-> op, types |-> types, name |-> name, nl |-> -1 ]

Output ==
  [ indent |-> 0, parts |-> << >>, template_indices |-> << >>, written |-> << >> ]

OutIndentIn(o) == [ o EXCEPT !.indent = @ + 2 ]

OutIndentOut(o) == [ o EXCEPT !.indent = @ - 2 ]

PartContains(part, what) == \E i \in 1..Len(part.types) : part.types[i] = what

OutWrite(o, part) ==
  [ o EXCEPT
      !.template_indices =
         IF PartContains(part, TEMPLATE) THEN Append(@, Len(o.parts) + 1) ELSE @,
      !.parts = Append(@, part) ]

OutWritenl(o, part) == OutWrite(o, [ part EXCEPT !.nl = o.indent ])

PartReplace(part, what, with) ==
  [ part EXCEPT !.types = [ i \in 1..Len(@) |-> IF @[i] = what THEN with ELSE @[i] ] ]

OutFillLastTemplate(o, with) ==
  IF o.template_indices # << >>
  THEN LET index == o.template_indices[Len(o.template_indices)]
       IN  [ o EXCEPT
               !.parts[index] = PartReplace(@, TEMPLATE, with),
               !.template_indices = SubSeq(@, 1, Len(@) - 1) ]
  ELSE o

\* Output::flush: the fragments go to the writer, in order.
OutFlush(o) ==
  [ o EXCEPT !.written = @ \o o.parts, !.parts = << >>, !.template_indices = << >> ]

(***************************************************************************)
(* translation/wasm.rs.  panicked records that a todo!() or an             *)
(* unimplemented!() of the emitter was reached: the program unwinds.       *)
(***************************************************************************)
Wasm == [ output |-> Output, silenced |-> FALSE, panicked |-> FALSE ]

\* Wasm::typename: << >> is the unimplemented!() arm.
WasmTypename(t) ==
  CASE t.t = "Integer" -> << "i32" >>
    [] t.t = "Real"    -> << "f32" >>
    [] t.t = "Scalar"  -> << "i32" >>
    [] t.t = "Unknown" -> << TEMPLATE >>
    [] OTHER           -> << >>

WasmPanic(w) == [ w EXCEPT !.panicked = TRUE ]

\* Whether an emitter entry point is skipped (the guard `if !self.silenced`).
WasmOff(w) == w.silenced \/ w.panicked

WasmWrite(w, part) == [ w EXCEPT !.output = OutWrite(@, part) ]

WasmWritenl(w, part) == [ w EXCEPT !.output = OutWritenl(@, part) ]

WasmIn(w) == [ w EXCEPT !.output = OutIndentIn(@) ]

WasmOut(w) == [ w EXCEPT !.output = OutIndentOut(@) ]

WasmModStart(w) ==
  IF WasmOff(w) THEN w ELSE WasmIn(WasmWrite(w, Part("(module", << >>, << >>)))

WasmModEnd(w) ==
  IF WasmOff(w) THEN w ELSE WasmWrite(w, Part(")LF", << >>, << >>))

WasmFuncImport(w, name, types) ==
  IF WasmOff(w) THEN w
  ELSE IF \E i \in 1..Len(types) : WasmTypename(types[i]) = << >>
       THEN WasmPanic(w)
       ELSE WasmWritenl(w, Part("(func (import",
              [ i \in 1..Len(types) |-> WasmTypename(types[i])[1] ], name))

WasmFuncStart(w, name, export) ==
  IF WasmOff(w) THEN w
  ELSE WasmIn(WasmWritenl(w,
         Part(IF export THEN "(func (export" ELSE "(func $", << >>, name)))

WasmFuncLocal(w, name, t) ==
  IF WasmOff(w) THEN w
  ELSE IF WasmTypename(t) = << >> THEN WasmPanic(w)
       ELSE WasmWrite(w, Part("(local", WasmTypename(t), name))

WasmFuncEnd(w) ==
  IF WasmOff(w) THEN w ELSE WasmOut(WasmWrite(w, Part(")LF", << >>, << >>)))

WasmConstant(w, value, t) ==
  IF WasmOff(w) THEN w
  ELSE IF WasmTypename(t) = << >> THEN WasmPanic(w)
       ELSE WasmWritenl(w, Part(".const", WasmTypename(t), value))

\* Wasm::local_set without its `if !self.silenced`, as Wasm::eqz is written.
LocalSetUnguarded(w, name) ==
  IF w.panicked THEN w ELSE WasmWritenl(w, Part("local.set", << >>, name))

WasmLocalSet(w, name) ==
  IF WasmOff(w) THEN w ELSE WasmWritenl(w, Part("local.set", << >>, name))

WasmLocalGet(w, name) ==
  IF WasmOff(w) THEN w ELSE WasmWritenl(w, Part("local.get", << >>, name))

\* The cmd of Wasm::op: << >> is the todo!() arm.
WasmOpCmd(op) ==
  CASE op = "Multiply" -> << ".mul" >>
    [] op = "Plus"     -> << ".add" >>
    [] op = "Minus"    -> << ".sub" >>
    [] op = "Divide"   -> << ".div" >>
    [] op = "Or"       -> << ".or" >>
    [] op = "Xor"      -> << ".xor" >>
    [] OTHER           -> << >>

WasmOp(w, op, t) ==
  IF WasmOff(w) THEN w
  ELSE IF WasmOpCmd(op) = << >> \/ WasmTypename(t) = << >> THEN WasmPanic(w)
       ELSE WasmWritenl(w, Part(WasmOpCmd(op)[1], WasmTypename(t), << >>))

\* The cmd of Wasm::relop: << >> is the todo!() arm.
WasmRelopCmd(op, t) ==
  CASE op = "Eq" -> << ".eq" >>
    [] op = "Le" /\ t.t = "Integer" -> << ".le_s" >>
    [] op = "Lt" /\ t.t = "Integer" -> << ".lt_s" >>
    [] op = "Gt" /\ t.t = "Integer" -> << ".gt_s" >>
    [] op = "Ge" /\ t.t = "Integer" -> << ".ge_s" >>
    [] op = "Le" /\ t.t = "Real" -> << ".le" >>
    [] op = "Lt" /\ t.t = "Real" -> << ".lt" >>
    [] op = "Gt" /\ t.t = "Real" -> << ".gt" >>
    [] op = "Ge" /\ t.t = "Real" -> << ".ge" >>
    [] op = "Ne" -> << ".ne" >>
    [] OTHER -> << >>

WasmRelop(w, op, t) ==
  IF WasmOff(w) THEN w
  ELSE IF WasmRelopCmd(op, t) = << >> \/ WasmTypename(t) = << >> THEN WasmPanic(w)
       ELSE WasmWritenl(w, Part(WasmRelopCmd(op, t)[1], WasmTypename(t), << >>))

\* Wasm::eqz has no `if !self.silenced`; no rule of the parser calls it.
WasmEqz(w, t) ==
  IF w.panicked THEN w
  ELSE IF WasmTypename(t) = << >> THEN WasmPanic(w)
       ELSE WasmWritenl(w, Part(".eqz", WasmTypename(t), << >>))

WasmCall(w, name) ==
  IF WasmOff(w) THEN w ELSE WasmWritenl(w, Part("call", << >>, name))

WasmIfStart(w) ==
  IF WasmOff(w) THEN w ELSE WasmIn(WasmWritenl(w, Part("(if", << >>, << >>)))

WasmThenStart(w) ==
  IF WasmOff(w) THEN w ELSE WasmIn(WasmWritenl(w, Part("(then", << >>, << >>)))

WasmThenEnd(w) ==
  IF WasmOff(w) THEN w ELSE WasmOut(WasmWrite(w, Part(")", << >>, << >>)))

WasmElseStart(w) ==
  IF WasmOff(w) THEN w ELSE WasmIn(WasmWritenl(w, Part("(else", << >>, << >>)))

WasmElseEnd(w) ==
  IF WasmOff(w) THEN w ELSE WasmOut(WasmWrite(w, Part(")", << >>, << >>)))

WasmIfEnd(w) ==
  IF WasmOff(w) THEN w ELSE WasmOut(WasmWritenl(w, Part(")", << >>, << >>)))

WasmLoopStart(w, continue_label, end_label) ==
  IF WasmOff(w) THEN w
  ELSE WasmIn(WasmWritenl(
         WasmIn(WasmWritenl(w, Part("(block", << >>, end_label))),
         Part("(loop", << >>, continue_label)))

WasmBr(w, label) ==
  IF WasmOff(w) THEN w ELSE WasmWritenl(w, Part("br", << >>, label))

WasmBrIf(w, label) ==
  IF WasmOff(w) THEN w ELSE WasmWritenl(w, Part("br_if", << >>, label))

WasmLoopEnd(w) ==
  IF WasmOff(w) THEN w
  ELSE WasmWritenl(WasmOut(WasmWritenl(WasmOut(w), Part(")", << >>, << >>))),
                   Part(")", << >>, << >>))

WasmSilence(w) == IF ~w.silenced THEN [ w EXCEPT !.silenced = TRUE ] ELSE w

WasmFillNearestUnknown(w, t) ==
  IF WasmOff(w) THEN w
  ELSE IF WasmTypename(t) = << >> THEN WasmPanic(w)
       ELSE [ w EXCEPT !.output = OutFillLastTemplate(@, WasmTypename(t)[1]) ]

\* impl Drop for Wasm
WasmDrop(w) == [ w EXCEPT !.output = OutFlush(@) ]

(***************************************************************************)
(* parsing/code.rs: the struct Code and the methods that call no grammar   *)
(* rule.  Such a method is an operator from the Code c to a result: the    *)
(* Code after the call, and Ok(val), Err(err), or that the call does not   *)
(* return ("hang": the token stream spins).                                *)
(***************************************************************************)
Code(token_stream) ==
  [ token_stream |-> token_stream,
    lookahead    |-> TEOF,
    scope        |-> ScopeDefault,
    errors       |-> << >>,
    wasm         |-> Wasm ]

ROk(c, val) == [ c |-> c, kind |-> "ok", val |-> val, err |-> << >> ]

RErr(c, e) == [ c |-> c, kind |-> "err", val |-> << >>, err |-> << e >> ]

RHang(c) == [ c |-> c, kind |-> "hang", val |-> << >>, err |-> << >> ]

\* {:?} of a token, as a sequence of strings.
Debug(token) == << token.k >> \o token.v

\* Code::error: the Code with the error pushed and the emitter silenced,
\* and the error.
CodeError(c, kind, text, arg) ==
  LET err == CompilationError(kind, TsPrevPos(c.token_stream), Msg(text, arg))
  IN  [ c |-> [ c EXCEPT !.wasm = WasmSilence(@), !.errors = Append(@, err) ],
        err |-> err ]

semantic_error(c, text, arg) == CodeError(c, "SemanticError", text, arg)

syntax_error(c, text, arg) == CodeError(c, "SyntaxError", text, arg)

invalid_identifier(c, expected_kind, name) ==
  semantic_error(c, "invalid usage of {}, expected {} identifier",
                 name \o << "/", expected_kind >>)

undeclared_identifier(c, name) ==
  semantic_error([ c EXCEPT !.scope = ScopePut(@, name, IdUnknown).scope ],
                 "identifier not found {}", name)

redefined_identifier(c, name) ==
  semantic_error(c, "duplicate identifier {}", name)

\* An Err made of the error a reporting method returns.
Raise(e) == RErr(e.c, e.err)

\* What a rule makes of a result r: r itself unless it is Ok (the `?`),
\* else what comes next, K.
Try(r, K(_)) == IF r.kind = "ok" THEN K(r) ELSE r

\* (r is what token_stream.next() returned.)
ProceedOn(c, r) ==
  CASE r.out.kind = "tok" ->
         ROk([ c EXCEPT !.token_stream = r.ts, !.lookahead = r.out.tok ], << >>)
    [] r.out.kind = "err" -> RErr([ c EXCEPT !.token_stream = r.ts ], r.out.err[1])
    [] OTHER -> RHang([ c EXCEPT !.token_stream = r.ts ])

\* Code::proceed
proceed(c) == ProceedOn(c, TsNext(c.token_stream))

\* Code::consume
consume(c, token) ==
  IF c.lookahead = token
  THEN proceed(c)
  ELSE Raise(syntax_error(c, "expected {:?}, found {:?}",
                          Debug(token) \o << "/" >> \o Debug(c.lookahead)))

\* Code::consume_any: Ok(the token found).
consume_any(c, tokens) ==
  IF \E i \in 1..Len(tokens) : c.lookahead = tokens[i]
  THEN Try(proceed(c), LAMBDA r : ROk(r.c, c.lookahead))
  ELSE Raise(syntax_error(c, "expected {:?}, found {:?}",
                          << "any", "/" >> \o Debug(c.lookahead)))

\* Code::identifier: Ok(the name).
identifier(c) ==
  IF c.lookahead.k = "Id"
  THEN Try(proceed(c), LAMBDA r : ROk(r.c, c.lookahead.v))
  ELSE Raise(syntax_error(c, "expected identifier, found {:?}",
                          Debug(c.lookahead)))

\* The loop of Code::proceed_until, the first token read.
RECURSIVE ProceedUntilLoop(_, _, _)
ProceedUntilLoop(c, token_set, r) ==
  IF r.out.kind = "tok" /\ r.out.tok \notin token_set /\ r.out.tok # TEOF
  THEN IF TsStuck(r.ts) THEN RHang([ c EXCEPT !.token_stream = r.ts ])
       ELSE ProceedUntilLoop(c, token_set, TsNext(r.ts))
  ELSE ProceedOn(c, r)

\* (proceed_until taking the first token read, of the set or not.)
ProceedOnce(c, tokens) == ProceedOn(c, TsNext(c.token_stream))

proceed_until(c, tokens) ==
  ProceedUntilLoop(c, tokens, TsNext(c.token_stream))

\* Code::panic, the sync tokens as a set.
\* (a is what token_stream.available(until_tokens) returned.)
PanicOn(c, until_tokens, a) ==
  CASE a.kind = "err" -> RErr([ c EXCEPT !.token_stream = a.ts ], a.err[1])
    [] a.kind = "hang" -> RHang([ c EXCEPT !.token_stream = a.ts ])
    [] OTHER ->
         IF a.result
         THEN proceed_until([ c EXCEPT !.token_stream = a.ts ], until_tokens)
         ELSE RErr([ c EXCEPT !.token_stream = a.ts ],
                   CompilationError("SyntaxError", TsPrevPos(a.ts),
                     Msg("failed to recover, none of the {:?} tokens are present in the stream",
                         << >>)))

panic(c, until_tokens) ==
  PanicOn(c, until_tokens, TsAvailable(c.token_stream, until_tokens))

(***************************************************************************)
(* The compiler as a state machine.  A grammar rule of code.rs that calls  *)
(* other rules is an action; its activation is a frame on `stack` (the     *)
(* rule fn, the position pc reached in its body, its locals l), and one    *)
(* step runs the body from pc up to the next call of a rule or the return. *)
(* `ret` is what the rule that returned last returned.                     *)
(***************************************************************************)
VARIABLES
  input,    \* the bytes of the source file
  mode,     \* the entry point called: "compile" or "check"
  code,     \* the struct Code
  stack,    \* the activations of grammar rules, the innermost last
  ret,      \* the Result of the rule that returned last
  status,   \* "run"; "done": Ok(errors); "fatal": Err(e); "abort": a Rust
            \* panic; "hang": a loop that does not return
  run,      \* 1, or 2 when the same input is compiled again
  first,    \* the outcome of the first compilation, once it is over
  ts,       \* the token stream driven on its own (the lexer's specification)
  lpc,      \* "idle"; "next" inside a call of TokenStream::next; "hung"
            \* inside a call of available() that does not return
  from,     \* the token stream as the last call of next() found it
  hist,     \* the results of the calls of next() made so far
  probe     \* the call of TokenStream::available made: its arguments and result

vars ==
  << input, mode, code, stack, ret, status, run, first, ts, lpc, from, hist, probe >>

compilerVars == << input, mode, code, stack, ret, status, run, first >>

lexerVars == << ts, lpc, from, hist, probe >>

Top == stack[Len(stack)]

Frame(fn, l) == [ fn |-> fn, pc |-> 0, l |-> l ]

NoLocals == [ none |-> TRUE ]

RetOk(val) == [ kind |-> "ok", val |-> val, err |-> << >> ]

RetErr(e) == [ kind |-> "err", val |-> << >>, err |-> << e >> ]

\* What a step does: the Code, the stack and ret after it, and whether the
\* program stops there ("" when it does not).
Tr(c, stk, r, halt) == [ c |-> c, stack |-> stk, ret |-> r, halt |-> halt ]

SetTop(pc, l) == [ stack EXCEPT ![Len(stack)] = [ @ EXCEPT !.pc = pc, !.l = l ] ]

Pop == SubSeq(stack, 1, Len(stack) - 1)

\* Call rule fn; the caller resumes at pc.
Call(c, pc, l, fn, args) == Tr(c, Append(SetTop(pc, l), Frame(fn, args)), ret, "")

\* Return the result of rule fn as this rule's own.
TailCall(c, fn, args) == Tr(c, Append(Pop, Frame(fn, args)), ret, "")

Return(c, val) == Tr(c, Pop, RetOk(val), "")

ReturnErr(c, e) == Tr(c, Pop, RetErr(e), "")

Halt(c, how) == Tr(c, stack, ret, how)

\* The `?` on a result that is not Ok.
Fail(r) == IF r.kind = "err" THEN ReturnErr(r.c, r.err[1]) ELSE Halt(r.c, r.kind)

\* A Rust panic unwinds and drops the Code, whose emitter flushes.
Commit(t) ==
  LET how == IF t.halt # "" THEN t.halt
             ELSE IF t.c.wasm.panicked THEN "abort" ELSE ""
  IN  /\ code' = IF how = "abort" THEN [ t.c EXCEPT !.wasm = WasmDrop(@) ] ELSE t.c
      /\ stack' = t.stack
      /\ ret' = t.ret
      /\ status' = IF how # "" THEN how ELSE status
      /\ UNCHANGED << input, mode, run, first, lexerVars >>

At(fn) == status = "run" /\ stack # << >> /\ Top.fn = fn

\* The orders in which a set can be iterated (a HashMap or HashSet yields
\* its elements in an order that depends on its hasher's random seed).
Orders(S) ==
  { f \in [ 1..Cardinality(S) -> S ] :
      \A i, j \in 1..Cardinality(S) : f[i] = f[j] => i = j }

R0 == << "r", "0" >>
CONTINUE == << "c", "o", "n", "t", "i", "n", "u", "e" >>
END == << "e", "n", "d" >>

\* The `?` of a rule on a result r, and what comes next, K, if r is Ok.
Bind(r, K(_)) == IF r.kind = "ok" THEN K(r) ELSE Fail(r)

\* r.or_else(|_| H): H on the Code r left, if r is an Err.
OrElse(r, H(_)) == IF r.kind = "err" THEN H(r.c) ELSE r

\* The result the rule called last returned, on the Code as it is now.
Returned == [ c |-> code, kind |-> ret.kind, val |-> ret.val, err |-> ret.err ]

\* The `?` of a rule on the result of the rule it called.
BindRet(K(_)) == Bind(Returned, K)

Flush(c) == [ c EXCEPT !.wasm = WasmDrop(@) ]

Silence(c) == [ c EXCEPT !.wasm = WasmSilence(@) ]

\* Code::check and Code::compile.  The Code is dropped when compile()
\* returns, and its emitter flushes.
\* (r is what the first token_stream.next() returned.)
CompileProgram(r) ==
  CASE r.kind = "ok" -> Call(r.c, 1, Top.l, "program", NoLocals)
    [] r.kind = "err" -> Tr(Flush(r.c), << >>, RetErr(r.err[1]), "fatal")
    [] OTHER -> Halt(r.c, r.kind)

\* compile() that answers Ok whatever program() returned.
CompileAlwaysOk ==
  IF Top.pc = 0
  THEN CompileProgram(proceed(IF mode = "check" THEN Silence(code) ELSE code))
  ELSE Tr(Flush(code), << >>, ret, "done")

compileT ==
  IF Top.pc = 0
  THEN CompileProgram(proceed(IF mode = "check" THEN Silence(code) ELSE code))
  ELSE Tr(Flush(code), << >>, ret, IF ret.kind = "ok" THEN "done" ELSE "fatal")

compile == At("compile") /\ Commit(compileT)

\* The procedures of the scope, which program() imports.
Procedures(identifiers) ==
  { n \in DOMAIN identifiers : identifiers[n].k = "Procedure" }

RECURSIVE ImportAll(_, _, _)
ImportAll(w, identifiers, order) ==
  IF order = << >> THEN w
  ELSE ImportAll(WasmFuncImport(w, order[1], identifiers[order[1]].types),
                 identifiers, Tail(order))

PROGRAM == << "p", "r", "o", "g", "r", "a", "m" >>

ProgramStart(c) ==
  [ c EXCEPT !.wasm = WasmFuncLocal(WasmFuncStart(@, PROGRAM, TRUE), R0, TypeInteger) ]

\* The closure chain of program(): consume(program).and_then(...)
ProgramHeader(c) ==
  Try(consume(c, TK("program")), LAMBDA r1 :
    Try(identifier(r1.c), LAMBDA r2 :
      consume(ProgramStart(r2.c), TP("Semicolon"))))

\* program() from its block on: h is the result of its header, whose Err
\* unwrap_or_default() drops.
ProgramBlock(h) ==
  IF h.kind = "hang" THEN Halt(h.c, "hang")
  ELSE Call([ h.c EXCEPT !.scope = ScopeEmptyWithOuter(@) ], 1, Top.l, "block",
            NoLocals)

\* The end of program(): e is the result of consume(Dot).or_else(panic),
\* which expect() unwraps.
ProgramEnd(e) ==
  CASE e.kind = "err" -> Halt(e.c, "abort")
    [] e.kind = "hang" -> Halt(e.c, "hang")
    [] OTHER ->
         Return([ e.c EXCEPT !.scope = ScopeCollapse(@),
                             !.wasm = WasmModEnd(WasmFuncEnd(@)) ],
                << >>)

ModStart(c) == [ c EXCEPT !.wasm = WasmModStart(@) ]

Imports(c, order) ==
  [ c EXCEPT !.wasm = ImportAll(@, c.scope[Len(c.scope)], order) ]

\* Code::program; order is the order in which the scope yields its entries.
programT(order) ==
  IF Top.pc = 0
  THEN IF code.lookahead = TEOF
       THEN Return(ModStart(code), << >>)
       ELSE ProgramBlock(OrElse(ProgramHeader(Imports(ModStart(code), order)),
                                LAMBDA c : panic(c, { TK("type"), TK("var") })))
  ELSE Bind(OrElse(Returned, LAMBDA c : panic(c, { TP("Dot") })),
            LAMBDA r :
              ProgramEnd(OrElse(consume(r.c, TP("Dot")),
                                LAMBDA c : panic(c, { TEOF }))))

program ==
  /\ At("program")
  /\ \E order \in Orders(Procedures(code.scope[Len(code.scope)])) :
       Commit(programT(order))

\* block() after its type definitions.
BlockVars(c) ==
  IF c.lookahead = TK("var")
  THEN Call(c, 2, Top.l, "variable_declarations", NoLocals)
  ELSE Call(c, 3, Top.l, "compound_statement", NoLocals)

\* Code::block
blockT ==
  CASE Top.pc = 0 -> Call(code, 1, Top.l, "type_definitions", NoLocals)
    [] Top.pc = 1 ->
         Bind(OrElse(Returned, LAMBDA c : panic(c, { TK("var"), TK("begin") })),
              LAMBDA r : BlockVars(r.c))
    [] Top.pc = 2 ->
         Bind(OrElse(Returned, LAMBDA c : panic(c, { TK("begin"), TP("Semicolon") })),
              LAMBDA r : Call(r.c, 3, Top.l, "compound_statement", NoLocals))
    [] OTHER -> BindRet(LAMBDA r : Return(r.c, << >>))

block == At("block") /\ Commit(blockT)

\* The end of a rule: consume(token)?; Ok(val).
Finish(c, token, val) == Bind(consume(c, token), LAMBDA r : Return(r.c, val))

\* The loop of type_definitions.
TypeDefinitionsLoop(c) ==
  IF c.lookahead = TP("Semicolon")
  THEN Bind(proceed(c), LAMBDA r :
         IF r.c.lookahead.k # "Id"
         THEN Finish(r.c, TP("Semicolon"), << >>)
         ELSE Call(r.c, 1, Top.l, "type_definition", NoLocals))
  ELSE Finish(c, TP("Semicolon"), << >>)

\* Code::type_definitions
type_definitionsT ==
  IF Top.pc = 0
  THEN IF code.lookahead # TK("type")
       THEN Return(code, << >>)
       ELSE Bind(consume(code, TK("type")),
                 LAMBDA r : Call(r.c, 1, Top.l, "type_definition", NoLocals))
  ELSE BindRet(LAMBDA r : TypeDefinitionsLoop(r.c))

type_definitions == At("type_definitions") /\ Commit(type_definitionsT)

\* (p is what scope.put returned.)
Defined(c, p) ==
  IF p.ok THEN [ c EXCEPT !.scope = p.scope ]
  ELSE redefined_identifier([ c EXCEPT !.scope = p.scope ], p.id).c

\* Code::type_definition
type_definitionT ==
  IF Top.pc = 0
  THEN Bind(identifier(code), LAMBDA r1 :
         Bind(consume(r1.c, TR("Eq")), LAMBDA r2 :
           Call(r2.c, 1, [ id |-> r1.val ], "type_", NoLocals)))
  ELSE BindRet(LAMBDA r :
         Return(Defined(r.c, ScopePut(r.c.scope, Top.l.id, IdType(r.val))), << >>))

type_definition == At("type_definition") /\ Commit(type_definitionT)

\* Code::variable_declarations
variable_declarationsT ==
  IF Top.pc = 0
  THEN IF code.lookahead # TK("var")
       THEN Return(code, << >>)
       ELSE Bind(proceed(code),
                 LAMBDA r : Call(r.c, 1, Top.l, "variable_declaration", NoLocals))
  ELSE BindRet(LAMBDA r0 :
         Bind(consume(r0.c, TP("Semicolon")), LAMBDA r :
           IF r.c.lookahead.k = "Id"
           THEN Call(r.c, 1, Top.l, "variable_declaration", NoLocals)
           ELSE Return(r.c, << >>)))

variable_declarations ==
  At("variable_declarations") /\ Commit(variable_declarationsT)

\* The Code after a name is added to a HashSet of names that may hold it.
Named(c, name, names) ==
  IF name \in names THEN redefined_identifier(c, name).c ELSE c

\* The first loop of Code::variable_declaration: Ok(the HashSet names).
RECURSIVE VariableNames(_, _)

\* (r is what identifier() returned.)
VariableNamesOn(r, names) ==
  CASE r.kind = "ok" /\ r.c.lookahead = TP("Comma") ->
         Try(proceed(Named(r.c, r.val, names)),
             LAMBDA p : VariableNames(p.c, names \cup { r.val }))
    [] r.kind = "ok" /\ r.c.lookahead = TP("Colon") ->
         ROk(Named(r.c, r.val, names), names \cup { r.val })
    [] r.kind = "ok" -> VariableNames(Named(r.c, r.val, names), names \cup { r.val })
    [] r.kind = "err" ->
         Try(panic(r.c, { TP("Colon") }), LAMBDA p : VariableNames(p.c, names))
    [] OTHER -> r

VariableNames(c, names) == VariableNamesOn(identifier(c), names)

RECURSIVE FuncLocals(_, _, _)
FuncLocals(w, order, t) ==
  IF order = << >> THEN w
  ELSE FuncLocals(WasmFuncLocal(w, order[1], t), Tail(order), t)

\* The items variable_declaration hands to scope.extend.
Variables(order, t) ==
  [ i \in 1..Len(order) |-> << order[i], IdVariable(order[i], t) >> ]

\* Code::variable_declaration; order is the order in which the HashSet
\* names yields its elements.
variable_declarationT(order) ==
  IF Top.pc = 0
  THEN Bind(VariableNames(code, { }), LAMBDA r1 :
         Bind(consume(r1.c, TP("Colon")), LAMBDA r2 :
           Call(r2.c, 1, [ names |-> r1.val ], "type_", NoLocals)))
  ELSE BindRet(LAMBDA r :
         Return(Defined([ r.c EXCEPT !.wasm = FuncLocals(@, order, r.val) ],
                        ScopeExtend(r.c.scope, Variables(order, r.val))),
                << >>))

variable_declaration ==
  /\ At("variable_declaration")
  /\ \E order \in Orders(IF Top.pc = 0 THEN { } ELSE Top.l.names) :
       Commit(variable_declarationT(order))

\* Code::type_, with structured_type and simple_type, which only choose
\* the rule to call.
type_T ==
  CASE code.lookahead = TK("record") -> TailCall(code, "record_type", NoLocals)
    [] code.lookahead = TP("Lbracket") -> TailCall(code, "scalar_type", NoLocals)
    [] code.lookahead.k = "Number" -> Halt(code, "abort")
    [] code.lookahead.k = "Id" -> TailCall(code, "type_identifier", NoLocals)
    [] OTHER ->
         Fail(Raise(syntax_error(code,
           "expected left bracket, number, or an identifier, found {:?}",
           Debug(code.lookahead))))

type_ == At("type_") /\ Commit(type_T)

\* (id is what scope.get(name) returned.)
TypeNamed(c, name, id) ==
  IF id = << >>
  THEN Return(undeclared_identifier(c, name).c, TypeUnknown)
  ELSE IF id[1].k = "Type"
       THEN Return(c, id[1].t)
       ELSE Return(invalid_identifier(c, "type", name).c, TypeUnknown)

\* Code::type_identifier
type_identifierT ==
  Bind(identifier(code), LAMBDA r : TypeNamed(r.c, r.val, ScopeGet(r.c.scope, r.val)))

type_identifier == At("type_identifier") /\ Commit(type_identifierT)

Contains(ids, id) == \E i \in 1..Len(ids) : ids[i] = id

\* The Code after a name is added to a list of names that may hold it,
\* and the list.
Listed(c, id, ids) ==
  IF Contains(ids, id) THEN redefined_identifier(c, id).c ELSE c

PushBack(ids, id) == IF Contains(ids, id) THEN ids ELSE Append(ids, id)

\* The loop of Code::scalar_type: Ok(Type::Scalar(ids)).
RECURSIVE ScalarIds(_, _)

\* (r is what identifier() returned, were it Ok.)
ScalarIdsOn(r, ids) ==
  IF r.c.lookahead = TP("Comma")
  THEN Try(proceed(Listed(r.c, r.val, ids)),
           LAMBDA p : ScalarIds(p.c, PushBack(ids, r.val)))
  ELSE Try(consume(Listed(r.c, r.val, ids), TP("Rbracket")),
           LAMBDA q : ROk(q.c, TypeScalar(PushBack(ids, r.val))))

ScalarIds(c, ids) == Try(identifier(c), LAMBDA r : ScalarIdsOn(r, ids))

\* Code::scalar_type
scalar_typeT ==
  Bind(Try(consume(code, TP("Lbracket")), LAMBDA r : ScalarIds(r.c, << >>)),
       LAMBDA s : Return(s.c, s.val))

scalar_type == At("scalar_type") /\ Commit(scalar_typeT)

\* Code::record_type
record_typeT ==
  IF Top.pc = 0
  THEN Bind(consume(code, TK("record")),
            LAMBDA r : Call(r.c, 1, Top.l, "field_list", [ table |-> EmptyMap ]))
  ELSE Bind(OrElse(Returned, LAMBDA c :
                     Try(panic(c, { TK("end") }), LAMBDA p : ROk(p.c, EmptyMap))),
            LAMBDA r : Finish(r.c, TK("end"), TypeRecord(r.val)))

record_type == At("record_type") /\ Commit(record_typeT)

\* Code::field_list, with fixed_part, which it calls on its empty table.
field_listT ==
  IF Top.pc = 0
  THEN Call(code, 1, Top.l, "record_section", [ table |-> Top.l.table ])
  ELSE BindRet(LAMBDA r0 :
         IF r0.c.lookahead = TP("Semicolon")
         THEN Bind(proceed(r0.c), LAMBDA r :
                Call(r.c, 1, [ table |-> r0.val ], "record_section",
                     [ table |-> r0.val ]))
         ELSE Return(r0.c, r0.val))

field_list == At("field_list") /\ Commit(field_listT)

\* The loop of Code::record_section: Ok(the HashSet ids).
RECURSIVE SectionIds(_, _)

\* (r is what identifier().or_else(...) returned, were it Ok.)
SectionIdsOn(r, ids) ==
  IF r.c.lookahead = TP("Comma")
  THEN Try(proceed(Named(r.c, r.val, ids)),
           LAMBDA p : SectionIds(p.c, ids \cup { r.val }))
  ELSE ROk(Named(r.c, r.val, ids), ids \cup { r.val })

SectionIds(c, ids) ==
  Try(OrElse(identifier(c), LAMBDA c1 :
               Try(panic(c1, { TP("Colon") }), LAMBDA p : ROk(p.c, << >>))),
      LAMBDA r : SectionIdsOn(r, ids))

\* table.extend(ids.drain().map(|id| (id, t)))
WithFields(table, ids, t) ==
  [ n \in DOMAIN table \cup ids |-> IF n \in ids THEN t ELSE table[n] ]

\* Code::record_section: Ok(the table, extended).
record_sectionT ==
  IF Top.pc = 0
  THEN IF code.lookahead.k # "Id"
       THEN Return(code, Top.l.table)
       ELSE Bind(SectionIds(code, { }), LAMBDA r1 :
              Bind(consume(r1.c, TP("Colon")), LAMBDA r2 :
                Call(r2.c, 1, [ table |-> Top.l.table, ids |-> r1.val ], "type_",
                     NoLocals)))
  ELSE BindRet(LAMBDA r : Return(r.c, WithFields(Top.l.table, Top.l.ids, r.val)))

record_section == At("record_section") /\ Commit(record_sectionT)

(***************************************************************************)
(* The rules that call no other rule, as operators on the Code.            *)
(***************************************************************************)

\* (r is what identifier() returned, were it Ok.)
FieldNamed(r, subscope) ==
  IF DOMAIN subscope = { } THEN ROk(r.c, TypeUnknown)
  ELSE IF r.val \in DOMAIN subscope THEN ROk(r.c, subscope[r.val])
  ELSE ROk(semantic_error(r.c, "undefined field {}", r.val).c, TypeUnknown)

\* Code::field_identifier: Ok(the type of the field).
field_identifier(c, subscope) ==
  Try(identifier(c), LAMBDA r : FieldNamed(r, subscope))

RECURSIVE field_designator(_, _)

\* The fields after the '.' that follows a variable or field of type t:
\* field_designator on the fields of t, which text says a record must be.
Designated(c, t, text, arg) ==
  IF t.t = "Record"
  THEN field_designator(c, t.fields)
  ELSE field_designator(semantic_error(c, text, arg).c, EmptyMap)

\* Code::field_designator
field_designator(c, subscope) ==
  Try(field_identifier(c, subscope), LAMBDA r :
    IF r.c.lookahead = TP("Dot")
    THEN Try(proceed(r.c), LAMBDA p :
           Designated(p.c, r.val,
                      "attempt to access a field of a non-record field", << >>))
    ELSE r)

\* (id is Some(Identifier::Variable(_, t)).)
VariableOf(c, name, t) ==
  IF c.lookahead = TP("Dot")
  THEN Try(proceed(c), LAMBDA p :
         Try(Designated(p.c, t,
                        "attempt to access a field of a non-record variable {}",
                        name),
             LAMBDA f : ROk(f.c, << name, f.val >>)))
  ELSE ROk(c, << name, t >>)

\* (id is what scope.get(name) returned.)
VariableNamed(c, name, id) ==
  IF id = << >> THEN Raise(undeclared_identifier(c, name))
  ELSE IF id[1].k # "Variable" THEN Raise(invalid_identifier(c, "variable", name))
  ELSE VariableOf(c, name, id[1].t)

\* Code::variable: Ok(<< name, type >>).
variable(c) ==
  Try(identifier(c), LAMBDA r : VariableNamed(r.c, r.val, ScopeGet(r.c.scope, r.val)))

\* (id is what scope.get(name) returned.)
ControlNamed(c, name, id) ==
  IF id = << >> THEN Raise(undeclared_identifier(c, name))
  ELSE IF id[1].k # "Variable" THEN Raise(invalid_identifier(c, "variable", name))
  ELSE ROk(c, << id[1].name, id[1].t >>)

\* Code::control_variable: Ok(<< name, type >>).
control_variable(c) ==
  Try(identifier(c), LAMBDA r : ControlNamed(r.c, r.val, ScopeGet(r.c.scope, r.val)))

\* The loop of Code::record_variables: Ok(the table of fields).
RECURSIVE RecordFields(_, _)

\* (c is the Code after variable() returned a variable of type t.)
RecordFieldsOn(c, t, table) ==
  IF c.lookahead = TP("Comma")
  THEN Try(proceed(c), LAMBDA p : RecordFields(p.c, table))
  ELSE ROk(c, table)

RecordFields(c, table) ==
  Try(variable(c), LAMBDA r :
    IF r.val[2].t = "Record"
    THEN RecordFieldsOn(r.c, r.val[2], MapExtend(table, r.val[2].fields))
    ELSE RecordFieldsOn(
           semantic_error(r.c, "expected a variable of record type", << >>).c,
           r.val[2], table))

\* Code::record_variables: Ok(the identifiers of the fields).
record_variables(c) ==
  Try(RecordFields(c, EmptyMap), LAMBDA r :
    ROk(r.c, [ k \in DOMAIN r.val |-> IdVariable(k, r.val[k]) ]))

NumberType(value) ==
  IF \E i \in 1..Len(value) : value[i] = "." THEN TypeReal ELSE TypeInteger

\* Code::number
number(c, value) ==
  Try(proceed(c), LAMBDA r :
    ROk([ r.c EXCEPT !.wasm = WasmConstant(@, value, NumberType(value)) ],
        NumberType(value)))

\* Code::literal; a literal of another length than 1 is unimplemented!().
literal(c, value) ==
  Try(proceed(c), LAMBDA r :
    IF Len(value) = 1 THEN ROk(r.c, TypeChar)
    ELSE ROk([ r.c EXCEPT !.wasm = WasmPanic(@) ], TypeChar))

is_adding(op) == op \in { "Plus", "Minus", "Or" }

is_multiplying(op) == op \in { "Multiply", "Divide", "IntegerDivide", "And" }

(***************************************************************************)
(* Statements.                                                             *)
(***************************************************************************)

\* The loop of compound_statement.
CompoundLoop(c) ==
  IF c.lookahead = TP("Semicolon")
  THEN Bind(proceed(c), LAMBDA r :
         IF r.c.lookahead = TK("end")
         THEN Finish(r.c, TK("end"), << >>)
         ELSE Call(r.c, 1, Top.l, "statement", NoLocals))
  ELSE Finish(c, TK("end"), << >>)

\* Code::compound_statement (Code::statements is a call of it).
compound_statementT ==
  IF Top.pc = 0
  THEN Bind(consume(code, TK("begin")),
            LAMBDA r : Call(r.c, 1, Top.l, "statement", NoLocals))
  ELSE BindRet(LAMBDA r : CompoundLoop(r.c))

compound_statement == At("compound_statement") /\ Commit(compound_statementT)

\* Code::statement, with structured_statement, conditional_statement and
\* loop_statement, which only choose the rule to call.
statementT ==
  CASE code.lookahead = TP("Semicolon") \/ code.lookahead = TK("end") ->
         Return(code, << >>)
    [] code.lookahead = TK("if") -> TailCall(code, "if_statement", NoLocals)
    [] code.lookahead = TK("while") -> TailCall(code, "while_statement", NoLocals)
    [] code.lookahead = TK("repeat") -> TailCall(code, "repeat_statement", NoLocals)
    [] code.lookahead = TK("for") -> TailCall(code, "for_statement", NoLocals)
    [] code.lookahead = TK("begin") -> TailCall(code, "compound_statement", NoLocals)
    [] code.lookahead = TK("with") -> TailCall(code, "with_statement", NoLocals)
    [] code.lookahead.k = "Id" -> TailCall(code, "simple_statement", NoLocals)
    [] code.lookahead.k = "K" ->
         Fail(Raise(syntax_error(code, "keyword {:?} cannot start a statement",
                                 Debug(code.lookahead))))
    [] OTHER ->
         Fail(Raise(syntax_error(code, "a statement cannot start with {:?}",
                                 Debug(code.lookahead))))

statement == At("statement") /\ Commit(statementT)

\* (id is what scope.get(name) returned.)
StatementNamed(c, name, id) ==
  IF id = << >> THEN Fail(Raise(undeclared_identifier(c, name)))
  ELSE CASE id[1].k = "Variable" -> TailCall(c, "assignment_statement", NoLocals)
         [] id[1].k = "Procedure" ->
              TailCall(c, "procedure_statement",
                       [ name |-> name, types |-> id[1].types, i |-> 1 ])
         [] OTHER -> Fail(Raise(semantic_error(c, "illegal statement", << >>)))

\* Code::simple_statement
simple_statementT ==
  IF code.lookahead.k # "Id" THEN Halt(code, "abort")
  ELSE StatementNamed(code, code.lookahead.v, ScopeGet(code.scope, code.lookahead.v))

simple_statement == At("simple_statement") /\ Commit(simple_statementT)

\* An assignment that emits its local.set without a check of the types.
AssignedUnchecked(c, name, variable_type, expression_type) ==
  [ c EXCEPT !.wasm = WasmLocalSet(@, name) ]

\* The end of assignment_statement.
Assigned(c, name, variable_type, expression_type) ==
  IF variable_type # TypeUnknown /\ expression_type # TypeUnknown
  THEN IF variable_type = expression_type
       THEN [ c EXCEPT !.wasm = WasmLocalSet(@, name) ]
       ELSE semantic_error(c, "type mismatch in assignment", << >>).c
  ELSE c

\* Code::assignment_statement
assignment_statementT ==
  IF Top.pc = 0
  THEN Bind(variable(code), LAMBDA r1 :
         Bind(consume(r1.c, TO("Assign")), LAMBDA r2 :
           Call(r2.c, 1, [ name |-> r1.val[1], variable_type |-> r1.val[2] ],
                "expression", [ expected_type |-> r1.val[2] ])))
  ELSE BindRet(LAMBDA r :
         Return(Assigned(r.c, Top.l.name, Top.l.variable_type, r.val), << >>))

assignment_statement == At("assignment_statement") /\ Commit(assignment_statementT)

\* The loop of procedure_statement from the parameter of index i on, and
\* its end.
Arguments(c, i) ==
  IF i <= Len(Top.l.types)
  THEN Call(c, 1, [ Top.l EXCEPT !.i = i ], "expression",
            [ expected_type |-> Top.l.types[i] ])
  ELSE Finish([ c EXCEPT !.wasm = WasmCall(@, Top.l.name) ], TP("Rbracket"), << >>)

\* The Code after the type t_a of an argument is checked against t.
Argument(c, t_a, t) ==
  IF t_a # t
  THEN semantic_error(c, "type mismatch in procedure arguments", << >>).c
  ELSE c

\* Code::procedure_statement; i is the index of the parameter being parsed.
procedure_statementT ==
  IF Top.pc = 0
  THEN Bind(identifier(code), LAMBDA r1 :
         IF Len(Top.l.types) > 0
         THEN Bind(consume(r1.c, TP("Lbracket")), LAMBDA r2 : Arguments(r2.c, 1))
         ELSE Return(r1.c, << >>))
  ELSE BindRet(LAMBDA r :
         Arguments(Argument(r.c, r.val, Top.l.types[Top.l.i]), Top.l.i + 1))

procedure_statement == At("procedure_statement") /\ Commit(procedure_statementT)

IfStart(c) == [ c EXCEPT !.wasm = WasmIfStart(@) ]

ThenStart(c) == [ c EXCEPT !.wasm = WasmThenStart(@) ]

ThenEnd(c) == [ c EXCEPT !.wasm = WasmThenEnd(@) ]

ElseStart(c) == [ c EXCEPT !.wasm = WasmElseStart(@) ]

ElseEnd(c) == [ c EXCEPT !.wasm = WasmElseEnd(@) ]

IfEnd(c) == [ c EXCEPT !.wasm = WasmIfEnd(@) ]

\* if_statement after the statement of its then.
IfElse(c) ==
  IF c.lookahead = TK("else")
  THEN Bind(proceed(c),
            LAMBDA r : Call(ElseStart(r.c), 3, Top.l, "statement", NoLocals))
  ELSE Return(IfEnd(c), << >>)

\* Code::if_statement
if_statementT ==
  CASE Top.pc = 0 ->
         Bind(consume(code, TK("if")), LAMBDA r :
           Call(r.c, 1, Top.l, "expression", [ expected_type |-> boolean ]))
    [] Top.pc = 1 ->
         BindRet(LAMBDA r0 :
           Bind(consume(IfStart(r0.c), TK("then")), LAMBDA r :
             Call(ThenStart(r.c), 2, Top.l, "statement", NoLocals)))
    [] Top.pc = 2 -> BindRet(LAMBDA r : IfElse(ThenEnd(r.c)))
    [] OTHER -> BindRet(LAMBDA r : Return(IfEnd(ElseEnd(r.c)), << >>))

if_statement == At("if_statement") /\ Commit(if_statementT)

Emit1(c, F(_)) == [ c EXCEPT !.wasm = F(@) ]

\* r.or_else(|_| { self.panic(until_tokens)?; Ok(val) })
OrPanic(r, until_tokens, val) ==
  OrElse(r, LAMBDA c : Try(panic(c, until_tokens), LAMBDA p : ROk(p.c, val)))

\* The Code after text is reported unless t is boolean or Unknown, and
\* after the emitter did Then if t is boolean.
Condition(c, t, Then(_), text) ==
  IF t = boolean THEN Emit1(c, Then)
  ELSE IF t # TypeUnknown THEN semantic_error(c, text, << >>).c
  ELSE c

WhileStart(w) == WasmConstant(WasmLoopStart(w, CONTINUE, END), << "1" >>, TypeInteger)

WhileMinus(w) == WasmOp(w, "Minus", TypeInteger)

WhileExit(w) == WasmBrIf(w, END)

WhileEnd(w) == WasmLoopEnd(WasmBr(w, CONTINUE))

\* Code::while_statement
while_statementT ==
  CASE Top.pc = 0 ->
         Bind(consume(code, TK("while")), LAMBDA r :
           Call(Emit1(r.c, WhileStart), 1, Top.l, "expression",
                [ expected_type |-> boolean ]))
    [] Top.pc = 1 ->
         Bind(OrPanic(Returned, { TK("do") }, TypeUnknown), LAMBDA r0 :
           Bind(consume(Condition(Emit1(r0.c, WhileMinus), r0.val, WhileExit,
                          "the condition in a while statement must have boolean type"),
                        TK("do")),
                LAMBDA r : Call(r.c, 2, Top.l, "statement", NoLocals)))
    [] OTHER -> BindRet(LAMBDA r : Return(Emit1(r.c, WhileEnd), << >>))

while_statement == At("while_statement") /\ Commit(while_statementT)

RepeatStart(w) == WasmLoopStart(w, CONTINUE, END)

RepeatExit(w) == WasmBr(WasmBrIf(w, END), CONTINUE)

\* The loop of repeat_statement.
RepeatLoop(c) ==
  IF c.lookahead = TP("Semicolon")
  THEN Bind(proceed(c), LAMBDA r : Call(r.c, 1, Top.l, "statement", NoLocals))
  ELSE Bind(consume(c, TK("until")), LAMBDA r :
         Call(r.c, 2, Top.l, "expression", [ expected_type |-> boolean ]))

\* Code::repeat_statement
repeat_statementT ==
  CASE Top.pc = 0 ->
         Bind(consume(code, TK("repeat")), LAMBDA r :
           Call(Emit1(r.c, RepeatStart), 1, Top.l, "statement", NoLocals))
    [] Top.pc = 1 -> BindRet(LAMBDA r : RepeatLoop(r.c))
    [] OTHER ->
         BindRet(LAMBDA r :
           Return(Emit1(Condition(r.c, r.val, RepeatExit,
                                  "until expression must have boolean type"),
                        WasmLoopEnd),
                  << >>))

repeat_statement == At("repeat_statement") /\ Commit(repeat_statementT)

\* The value for_statement adds to the control variable.
DirectionStep(direction) ==
  CASE direction = TK("to") -> << "1" >>
    [] direction = TK("downto") -> << "-", "1" >>
    [] OTHER -> << >>

ForStart(w) == WasmLocalGet(w, R0)

\* The Code after for_statement checked the type t of its control variable.
Controlled(c, t) ==
  IF t # TypeUnknown /\ t # TypeInteger
  THEN semantic_error(c, "the for-loop control variable must have integer type",
                      << >>).c
  ELSE c

ForTest(w, n) ==
  WasmBrIf(
    WasmRelop(WasmLocalGet(WasmLocalGet(WasmLoopStart(w, CONTINUE, END), R0), n),
              "Eq", TypeInteger),
    END)

\* for_statement without its last local_set(R0).
ForEndNoRestore(w, n, direction) ==
  WasmLoopEnd(
    WasmBr(
      WasmLocalSet(
        WasmOp(WasmLocalGet(WasmConstant(w, DirectionStep(direction), TypeInteger), n),
               "Plus", TypeInteger),
        n),
      CONTINUE))

ForEnd(w, n, direction) ==
  WasmLocalSet(
    WasmLoopEnd(
      WasmBr(
        WasmLocalSet(
          WasmOp(WasmLocalGet(WasmConstant(w, DirectionStep(direction), TypeInteger), n),
                 "Plus", TypeInteger),
          n),
        CONTINUE)),
    R0)

\* Code::for_statement
for_statementT ==
  CASE Top.pc = 0 ->
         Bind(consume(code, TK("for")), LAMBDA r1 :
           Bind(OrPanic(control_variable(Emit1(r1.c, ForStart)), { TO("Assign") },
                        << << >>, TypeUnknown >>),
                LAMBDA cv :
                  Bind(consume(Controlled(cv.c, cv.val[2]), TO("Assign")), LAMBDA r2 :
                    Call(r2.c, 1, [ n |-> cv.val[1], direction |-> TUnknown ],
                         "for_list",
                         [ control_var_name |-> cv.val[1], direction |-> TUnknown ]))))
    [] Top.pc = 1 ->
         Bind(OrPanic(Returned, { TK("do") }, TUnknown), LAMBDA r0 :
           Bind(consume([ r0.c EXCEPT !.wasm = ForTest(@, Top.l.n) ], TK("do")),
                LAMBDA r :
                  Call(r.c, 2, [ Top.l EXCEPT !.direction = r0.val ], "statement",
                       NoLocals)))
    [] OTHER ->
         BindRet(LAMBDA r :
           Return([ r.c EXCEPT !.wasm = ForEnd(@, Top.l.n, Top.l.direction) ], << >>))

for_statement == At("for_statement") /\ Commit(for_statementT)

LocalSet(c, name) == [ c EXCEPT !.wasm = WasmLocalSet(@, name) ]

\* Code::for_list: Ok(the direction token).
for_listT ==
  CASE Top.pc = 0 -> Call(code, 1, Top.l, "initial_value", NoLocals)
    [] Top.pc = 1 ->
         BindRet(LAMBDA r0 :
           Bind(consume_any(LocalSet(r0.c, Top.l.control_var_name),
                            << TK("to"), TK("downto") >>),
                LAMBDA r :
                  Call(r.c, 2, [ Top.l EXCEPT !.direction = r.val ], "final_value",
                       NoLocals)))
    [] OTHER -> BindRet(LAMBDA r : Return(LocalSet(r.c, R0), Top.l.direction))

for_list == At("for_list") /\ Commit(for_listT)

\* The body of initial_value and of final_value after their expression.
BoundValue(text) ==
  BindRet(LAMBDA r :
    IF r.val # TypeInteger
    THEN Return(semantic_error(r.c, text, << >>).c, TypeUnknown)
    ELSE Return(r.c, r.val))

\* Code::initial_value
initial_valueT ==
  IF Top.pc = 0
  THEN Call(code, 1, Top.l, "expression", [ expected_type |-> TypeInteger ])
  ELSE BoundValue("the initial value in a for loop must have integer type")

initial_value == At("initial_value") /\ Commit(initial_valueT)

\* Code::final_value
final_valueT ==
  IF Top.pc = 0
  THEN Call(code, 1, Top.l, "expression", [ expected_type |-> TypeInteger ])
  ELSE BoundValue("the final value in a for loop must have integer type")

final_value == At("final_value") /\ Commit(final_valueT)

\* Code::with_statement
with_statementT ==
  IF Top.pc = 0
  THEN Bind(consume(code, TK("with")), LAMBDA r1 :
         Bind(record_variables(r1.c), LAMBDA r2 :
           Bind(consume([ r2.c EXCEPT !.scope = ScopeWithOuter(@, r2.val) ], TK("do")),
                LAMBDA r3 : Call(r3.c, 1, Top.l, "statement", NoLocals))))
  ELSE BindRet(LAMBDA r : Return(r.c, << >>))

with_statement == At("with_statement") /\ Commit(with_statementT)

(***************************************************************************)
(* Expressions.                                                            *)
(***************************************************************************)

\* A comparison whose result is boolean whatever the types of its operands.
ComparedAlwaysBoolean(c, op, type_a, type_b) ==
  Return([ c EXCEPT !.wasm = WasmRelop(@, op, type_a) ], boolean)

\* The end of expression after a relational operator.
Compared(c, op, type_a, type_b) ==
  IF type_a = type_b
  THEN Return([ c EXCEPT !.wasm = WasmRelop(@, op, type_a) ], boolean)
  ELSE Return(semantic_error(c, "values of different types cannot be compared",
                             << >>).c,
              TypeUnknown)

\* Code::expression
expressionT ==
  CASE Top.pc = 0 ->
         Call(code, 1, Top.l, "simple_expression",
              [ expected_type |-> Top.l.expected_type ])
    [] Top.pc = 1 ->
         BindRet(LAMBDA r0 :
           IF r0.c.lookahead.k = "R"
           THEN Bind(proceed(r0.c), LAMBDA r :
                  Call(r.c, 2,
                       [ expected_type |-> Top.l.expected_type, type_a |-> r0.val,
                         op |-> r0.c.lookahead.v[1] ],
                       "simple_expression",
                       [ expected_type |-> Top.l.expected_type ]))
           ELSE Return(r0.c, r0.val))
    [] OTHER -> BindRet(LAMBDA r : Compared(r.c, Top.l.op, Top.l.type_a, r.val))

expression == At("expression") /\ Commit(expressionT)

\* The loop of simple_expression (rule "term", is_adding) and of term (rule
\* "factor", is_multiplying), entered with the type so far.
OperandLoop(c, t, rule, is_op(_)) ==
  IF c.lookahead.k = "O" /\ is_op(c.lookahead.v[1])
  THEN Bind(proceed(c), LAMBDA r :
         Call(r.c, 2,
              [ expected_type |-> Top.l.expected_type, t |-> t,
                op |-> c.lookahead.v[1] ],
              rule, [ expected_type |-> Top.l.expected_type ]))
  ELSE Return(c, t)

\* The type of the operation on operands of types t and next_type.
Joined(t, next_type) == IF next_type # t THEN TypeUnknown ELSE t

\* The end of a turn of that loop: the operand's type is next_type.
OperandDone(c, next_type, rule, is_op(_)) ==
  OperandLoop([ c EXCEPT !.wasm = WasmOp(@, Top.l.op, Joined(Top.l.t, next_type)) ],
              Joined(Top.l.t, next_type), rule, is_op)

\* simple_expression after its sign, if it has one.
Signed(r, negative) ==
  Bind(r, LAMBDA r1 :
    Call(IF negative
         THEN [ r1.c EXCEPT !.wasm = WasmConstant(@, << "0" >>, TypeUnknown) ]
         ELSE r1.c,
         1, [ expected_type |-> Top.l.expected_type, negative |-> negative ],
         "term", [ expected_type |-> Top.l.expected_type ]))

\* The Code after the first term, of type t, of a simple_expression.
Negated(c, negative, t) ==
  IF negative
  THEN [ c EXCEPT !.wasm = WasmOp(WasmFillNearestUnknown(@, t), "Minus", t) ]
  ELSE c

\* Code::simple_expression
simple_expressionT ==
  CASE Top.pc = 0 ->
         IF code.lookahead.k = "O"
         THEN IF code.lookahead.v[1] \in { "Plus", "Minus" }
              THEN Signed(proceed(code), code.lookahead.v[1] = "Minus")
              ELSE Fail(Raise(syntax_error(code, "expected plus or minus", << >>)))
         ELSE Signed(ROk(code, << >>), FALSE)
    [] Top.pc = 1 ->
         BindRet(LAMBDA r :
           OperandLoop(Negated(r.c, Top.l.negative, r.val), r.val, "term", is_adding))
    [] OTHER -> BindRet(LAMBDA r : OperandDone(r.c, r.val, "term", is_adding))

simple_expression == At("simple_expression") /\ Commit(simple_expressionT)

\* Code::term
termT ==
  CASE Top.pc = 0 ->
         Call(code, 1, Top.l, "factor", [ expected_type |-> Top.l.expected_type ])
    [] Top.pc = 1 ->
         BindRet(LAMBDA r : OperandLoop(r.c, r.val, "factor", is_multiplying))
    [] OTHER -> BindRet(LAMBDA r : OperandDone(r.c, r.val, "factor", is_multiplying))

term == At("term") /\ Commit(termT)

DigitSeq == << "0", "1", "2", "3", "4", "5", "6", "7", "8", "9" >>

\* usize::to_string
RECURSIVE to_string(_)
to_string(n) ==
  IF n < 10 THEN << DigitSeq[n + 1] >>
  ELSE Append(to_string(n \div 10), DigitSeq[(n % 10) + 1])

\* vs.iter().position(|n| n == &name): the indices, from 1, of name in vs.
Positions(vs, name) == { p \in 1..Len(vs) : vs[p] = name }

First(ps) == CHOOSE p \in ps : \A q \in ps : p <= q

\* (The constant of a scalar value counted from 1.)
ScalarValueFromOne(c, p, expected_type) ==
  Bind(proceed([ c EXCEPT !.wasm = WasmConstant(@, to_string(p), TypeInteger) ]),
       LAMBDA r : Return(r.c, expected_type))

\* factor on the name of a value of the scalar type expected.
ScalarValue(c, p, expected_type) ==
  Bind(proceed([ c EXCEPT !.wasm = WasmConstant(@, to_string(p - 1), TypeInteger) ]),
       LAMBDA r : Return(r.c, expected_type))

\* Code::factor
factorT ==
  IF Top.pc = 0
  THEN CASE code.lookahead.k = "Id" ->
              IF /\ Top.l.expected_type.t = "Scalar"
                 /\ Positions(Top.l.expected_type.enum, code.lookahead.v) # { }
              THEN ScalarValue(code,
                               First(Positions(Top.l.expected_type.enum,
                                               code.lookahead.v)),
                               Top.l.expected_type)
              ELSE Bind(variable(code), LAMBDA r :
                     Return([ r.c EXCEPT !.wasm = WasmLocalGet(@, r.val[1]) ],
                            r.val[2]))
         [] code.lookahead.k = "Number" ->
              Bind(number(code, code.lookahead.v), LAMBDA r : Return(r.c, r.val))
         [] code.lookahead.k = "Literal" ->
              Bind(literal(code, code.lookahead.v), LAMBDA r : Return(r.c, r.val))
         [] code.lookahead = TO("Not") ->
              Bind(proceed(code), LAMBDA r :
                TailCall(r.c, "factor", [ expected_type |-> Top.l.expected_type ]))
         [] code.lookahead = TP("Lbracket") ->
              Bind(proceed(code), LAMBDA r :
                Call(r.c, 1, Top.l, "expression",
                     [ expected_type |-> Top.l.expected_type ]))
         [] OTHER -> Fail(Raise(syntax_error(code, "illegal expression", << >>)))
  ELSE BindRet(LAMBDA r0 : Finish(r0.c, TP("Rbracket"), r0.val))

factor == At("factor") /\ Commit(factorT)

(***************************************************************************)
(* The source files compiled.  A file is written as a sequence of words,   *)
(* which Src spells out in bytes with one space after each word.           *)
(***************************************************************************)
Bytes(w) ==
  CASE w \in ReservedNames \cup ReservedOperators -> Spell(w)
    [] w = "integer"    -> NInteger
    [] w = "real"       -> NReal
    [] w = "writelnint" -> NWritelnInt
    [] w = ":="         -> << ":", "=" >>
    [] w = "1.5"        -> << "1", ".", "5" >>
    [] w = "foo"        -> << "f", "o", "o" >>
    [] w = "'c'"        -> << "'", "c", "'" >>
    [] OTHER            -> << w >>

RECURSIVE Src(_)
Src(words) ==
  IF words = << >> THEN << >>
  ELSE Bytes(words[1]) \o << SPC >> \o Src(Tail(words))

\* The longest statement part generated: its number of statements.
MaxStmts == 1

\* Declaration parts that are well formed: of variables, of an enumerated
\* type and a variable of it, empty.
SoundDecls ==
  { << >>,
    << "var", "a", ":", "integer", ";", "b", ":", "real", ";" >>,
    << "type", "t", "=", "(", "u", ",", "v", ")", ";", ";",
       "var", "a", ":", "t", ";" >> }

\* Declaration parts.
Decls ==
  SoundDecls \cup
  { << "var", "r", ":", "record", "a", ":", "integer", ";", "c", ":", "real", "end",
       ";", "i", ":", "integer", ";" >>,
    << "var", "a", ":", "foo", ";", "b", ":", "foo", ";" >>,
    << "var", "a", ":", "integer", ";", "a", ",", "b", ":", "real", ";" >>,
    << "var", "a", ":", "integer", ";", "b", ":", "integer", ";",
       "a", ",", "b", ":", "real", ";" >>,
    << "type", "integer", "=", "real", ";", "var", "a", ":", "integer", ";" >> }

\* Statements.
Stmts ==
  { << "a", ":=", "1" >>,
    << "a", ":=", "a", "+", "1.5" >>,
    << "a", ":=", "u" >>,
    << "b", ":=", "-", "1.5", "*", "b" >>,
    << "x", ":=", "1" >>,
    << "r", ".", "a", ":=", "i" >>,
    << "if", "a", "=", "1", "then", "a", ":=", "2", "else", "a", ":=", "3" >>,
    << "if", "(", "1", "+", "1.5", ")", "=", "1", "then", "a", ":=", "2" >>,
    << "while", "x", "=", "1", "do", "x", ":=", "2" >>,
    << "while", "a", "<", "2", "do", "a", ":=", "a", "+", "1" >>,
    << "repeat", "a", ":=", "1", ";", "x", ":=", "x", "until", "a", "=", "1" >>,
    << "for", "i", ":=", "1", "to", "2", "do", "a", ":=", "i" >>,
    << "for", "a", ":=", "1", "+", "1.5", "downto", "x", "do", "begin", "end" >>,
    << "with", "r", "do", "a", ":=", "1" >>,
    << "with", "a", "do", "a", ":=", "1" >>,
    << "writelnint", "(", "a", ")" >>,
    << "writelnint", "(", "1", "+", "1.5", ")" >>,
    << "integer", ":=", "1" >> }

RECURSIVE Bodies(_)
Bodies(n) ==
  IF n = 0 THEN { << >> }
  ELSE Bodies(n - 1) \cup
       { b \o << ";" >> \o s : b \in Bodies(n - 1) \ { << >> }, s \in Stmts } \cup
       Stmts

\* The files whose only defect is that the `;` after the program header is
\* missing.
NoSemicolon(d) == << "program", "p" >> \o d \o << "begin", "end", "." >>

\* Files that are not a declaration part and a statement part.
Others ==
  { NoSemicolon(d) : d \in SoundDecls } \cup
  { << >>,
    << "program", "p", ";", "begin", "x", ":=", "1", "end" >>,
  << "program", "p", ";", "var", "i", ":", "integer", ";", "a", ":", "integer",
     ";", "begin", "for", "i", ":=", "1", "to", "2", "do", "for", "a", ":=",
     "2", "downto", "1", "do", "i", ":=", "a", "end", "." >>,
    << "program", "p", ";", "var", "a", ":", "integer", ";",
       "begin", "if", "not", "a", "=", "1", "then", "a", ":=", "1", "end", "." >>,
    << "program", "p", ";", "var", "a", ":", "integer", ";",
       "begin", "a", ":=", "a", "*", "not", "a", "end", "." >>,
    << "program", "p", ";", "." >>,
    << "program", "p", ";", "begin", "end", "x", "?" >>,
    << "program", "p", ";", "var", "a", ":", "integer", ";",
       "begin", "a", ":=", "?", "end", "." >>,
    << "program", "p", ";", "type", "t", "=", "(", "u", ",", "v", ")", ";", ";",
       "var", "a", ":", "t", ";", "begin", "a", ":=", "v", "end", "." >>,
    << "program", "p", ";", "var", "a", ":", "integer", ";", "b", ":", "real", ";",
       "begin", "if", "-", "(", "a", "*", "b", "=", "a", "*", "b", ")", "then",
       "a", ":=", "1", "end", "." >>,
    << "program", "p", ";", "var", "a", ",", ",", "b", ";", "begin", "end", "." >>,
    << "program", "p", ";", "var", "r", ":", "record", "f", ":", "integer", "end", ";",
       "begin", "with", "r", "do", "f", ":=", "1", ";", "f", ":=", "2", "end", "." >>,
    << "program", "p", ";", "var", "a", ":", "record", "f", ":", "integer", "end", ";",
       "b", ":", "record", "f", ":", "real", ";", "g", ":", "real", "end", ";",
       "begin", "with", "a", ",", "b", "do", "f", ":=", "1", "end", "." >>,
    << "program", "p", ";", "var", "a", ":", "record", "f", ":", "integer", "end", ";",
       "b", ":", "record", "f", ":", "real", ";", "g", ":", "real", "end", ";",
       "begin", "with", "b", ",", "a", "do", "f", ":=", "1", "end", "." >>,
    << "program", "p", ";", "type", "t", "=", "integer", ";", "t", "=", "real", ";", ";",
       "begin", "end", "." >>,
    << "program", "p", ";", "type", "integer", "=", "real", ";", ";",
       "begin", "end", "." >>,
    << "program", "p", ";", "var", "r", ":", "record", "b", ":", "record",
       "c", ":", "integer", "end", "end", ";", "begin",
       "r", ".", "b", ".", "c", ":=", "1", "end", "." >>,
    << "program", "p", ";", "var", "r", ":", "record", "a", ":", "integer", "end", ";",
       "begin", "r", ".", "b", ".", "c", ":=", "1", "end", "." >>,
    << "program", "p", ";", "var", "r", ":", "record", "end", ";",
       "begin", "r", ".", "a", ":=", "1", "end", "." >>,
    << "program", "p", ";", "begin", "end" >>,
    << "program", "p", ";", "begin", "a", ":=", "1", "end", ".", "." >>,
    << "p", ";", "var", "a", ":", "integer", ";", "begin", "a", ":=", "1", "end", "." >>,
    << "program", "p", ";", "var", "a", ":", "1", ";", "begin", "end", "." >>,
    << "program", "p", ";", "var", "a", ":", "integer", ";", "begin",
       "a", ":=", "'c'", "end", "." >>,
    << "program", "p", ";", "var", "a", ":", "integer", ";", "begin",
       "a", ":=", "1", ";", "a", ":=", "?", "end", "." >>,
    << "program", "p", ";", "var", "a", ":", "integer", ";", "begin",
       "a", ":=", "1", ";", "a", ":=", "1.5", "end", "." >> }

\* The file of the words, ended by a line feed right after its last word.
Line(words) == SubSeq(Src(words), 1, Len(Src(words)) - 1) \o << LF >>

\* Files that end before their program does, at the end of a line.
Truncated ==
  { << "program", "p", ";", "var", "a", ":", "foo" >>,
    << "program", "p", ";", "var", "a", ":", "integer", ";", "begin", "a", ".", "b" >>,
    << "program", "p", ";", "begin", "end" >> }

Programs ==
  { Src(<< "program", "p", ";" >> \o d \o << "begin" >> \o b \o << "end", "." >>) :
      d \in Decls, b \in Bodies(MaxStmts) }
  \cup { Src(o) : o \in Others }
  \cup { Line(o) : o \in Truncated }

\* Code::new on a TokenStream::new on a SimpleBuffer::new of the file.
NewCode(data) == Code(TokenStream(SimpleBuffer(data)))

NoOutcome == [ status |-> "", errors |-> << >>, written |-> << >> ]

Outcome == [ status |-> status, errors |-> code.errors,
             written |-> code.wasm.output.written ]

Idle == TokenStream(SimpleBuffer(<< >>))

Init ==
  /\ input \in Programs
  /\ mode \in { "compile", "check" }
  /\ code = NewCode(input)
  /\ stack = << Frame("compile", NoLocals) >>
  /\ ret = RetOk(<< >>)
  /\ status = "run"
  /\ run = 1
  /\ first = NoOutcome
  /\ ts = Idle
  /\ lpc = "idle"
  /\ from = Idle
  /\ hist = << >>
  /\ probe = << >>

\* The compiler is run again on the same file.
Rerun ==
  /\ status \in { "done", "fatal", "abort" }
  /\ run = 1
  /\ run' = 2
  /\ first' = Outcome
  /\ code' = NewCode(input)
  /\ stack' = << Frame("compile", NoLocals) >>
  /\ ret' = RetOk(<< >>)
  /\ status' = "run"
  /\ UNCHANGED << input, mode, lexerVars >>

\* The file that compile() was run on is then given to check().
Recheck ==
  /\ status \in { "done", "fatal", "abort" }
  /\ run = 1
  /\ mode = "compile"
  /\ run' = 3
  /\ mode' = "check"
  /\ first' = Outcome
  /\ code' = NewCode(input)
  /\ stack' = << Frame("compile", NoLocals) >>
  /\ ret' = RetOk(<< >>)
  /\ status' = "run"
  /\ UNCHANGED << input, lexerVars >>

Next ==
  \/ compile
  \/ program
  \/ block
  \/ type_definitions
  \/ type_definition
  \/ variable_declarations
  \/ variable_declaration
  \/ type_
  \/ type_identifier
  \/ scalar_type
  \/ record_type
  \/ field_list
  \/ record_section
  \/ compound_statement
  \/ statement
  \/ simple_statement
  \/ assignment_statement
  \/ procedure_statement
  \/ if_statement
  \/ while_statement
  \/ repeat_statement
  \/ for_statement
  \/ for_list
  \/ initial_value
  \/ final_value
  \/ with_statement
  \/ expression
  \/ simple_expression
  \/ term
  \/ factor
  \/ Rerun
  \/ Recheck

Spec == Init /\ [][Next]_vars

(***************************************************************************)
(* The token stream on its own: a client calls next() and available() on   *)
(* the stream of a file.  A step of `next` is one turn of the loop of      *)
(* TokenStream::next, so that a call that does not return shows as one.    *)
(***************************************************************************)

\* The most pieces a file is made of.
MaxPieces == 3

\* The most calls of next() the client makes.
MaxCalls == 4

\* How many bytes past the end of the file the reads are followed.
MaxPast == 3

\* The pieces of files of numbers, of comments and blanks, of symbols.
Alphabets ==
  { { << "1" >>, << "." >>, << ".", "5", "e" >>, << "+" >>, << ";" >>,
      << "1", ";" >> },
    { << "a" >>, << ";" >>, << "{", "}" >>, << "{", "a" >>, << "}" >>,
      << SPC >>, << LF >> },
    { << "'" >>, << "B" >>, << ":" >>, << "=" >>, << "<" >>, << ">" >>,
      << "D", "o" >> } }

RECURSIVE Strings(_, _)
Strings(A, n) ==
  IF n = 0 THEN { << >> }
  ELSE Strings(A, n - 1) \cup { s \o p : s \in Strings(A, n - 1), p \in A }

LexInputs == UNION { Strings(A, MaxPieces) : A \in Alphabets }

\* The sets of tokens the client asks available() for.
TokenSets ==
  { { TEOF }, { TP("Semicolon") }, { TId(<< "a" >>), TP("Dot") },
    { TNumber(<< "1" >>), TEOF } }

InitLex ==
  /\ input \in LexInputs
  /\ mode = "compile"
  /\ code = NewCode(<< >>)
  /\ stack = << >>
  /\ ret = RetOk(<< >>)
  /\ status = "lex"
  /\ run = 1
  /\ first = NoOutcome
  /\ ts = TokenStream(SimpleBuffer(input))
  /\ lpc = "idle"
  /\ from = ts
  /\ hist = << >>
  /\ probe = << >>

Past(t) == BufShift(t.buffer) - Len(t.buffer.storage)

\* (r is what the turn yields.)
NextTurn(r) ==
  /\ ts' = r.ts
  /\ lpc' = IF r.out.kind = "none" THEN "next" ELSE "idle"
  /\ hist' = IF r.out.kind = "none" THEN hist ELSE Append(hist, r.out)
  /\ from' = IF lpc = "idle" THEN ts ELSE from
  /\ UNCHANGED << probe, compilerVars >>

\* TokenStream::next: the call and the first turn of its loop, or one more
\* turn.
next ==
  /\ status = "lex"
  /\ IF lpc = "idle" THEN Len(hist) < MaxCalls ELSE lpc = "next"
  /\ Past(ts) < MaxPast
  /\ NextTurn(TsStep(ts))

\* (a is what available(token_set) returns.)
Probed(token_set, a) ==
  /\ ts' = a.ts
  /\ lpc' = IF a.kind = "hang" THEN "hung" ELSE "idle"
  /\ probe' = << [ token_set |-> token_set, before |-> ts, at |-> Len(hist),
                   kind |-> a.kind, result |-> a.result ] >>
  /\ UNCHANGED << from, hist, compilerVars >>

\* TokenStream::available
available ==
  /\ status = "lex"
  /\ lpc = "idle"
  /\ probe = << >>
  /\ Past(ts) < MaxPast
  /\ \E token_set \in TokenSets : Probed(token_set, TsAvailable(ts, token_set))

NextLex ==
  \/ next
  \/ available

SpecLex == InitLex /\ [][NextLex]_vars

(***************************************************************************)
(* Properties of a compilation (specification Spec).                       *)
(***************************************************************************)

\* The compilation has returned to its caller or unwound.
Ended == status \in { "done", "fatal", "abort" }

\* C1: on every input on which program() completes, every scope pushed
\* during the compilation has been popped: the active scope after program()
\* is the initial default scope, which holds only the built-ins.
C1_ScopesPopped == status = "done" => code.scope = ScopeDefault

\* C2: if the compilation has recorded a diagnostic, nothing has reached
\* the output writer when the emitter was flushed or dropped, the fragments
\* appended before the first diagnostic included.
C2_NoOutputOnError ==
  Ended /\ code.errors # << >> => code.wasm.output.written = << >>

\* C3: silencing is monotonic: from a state in which the emitter is
\* silenced, no step of the same compilation clears the flag or lengthens
\* the list of fragments.
C3_SilencedStays ==
  [][ code.wasm.silenced /\ run' = run
        => /\ code'.wasm.silenced
           /\ Len(code'.wasm.output.parts) <= Len(code.wasm.output.parts) ]_vars

\* A compilation that was silenced by a diagnostic while fragments were
\* pending, and has gone on to record a second diagnostic.
C3_SilencedGoesOn ==
  /\ status = "run"
  /\ mode = "compile"
  /\ code.wasm.silenced
  /\ code.wasm.output.parts # << >>
  /\ Len(code.errors) >= 2

\* C5: compiling the same file twice yields the same ordered list of
\* diagnostics, whatever order the name sets are iterated in.
C5_SameDiagnostics == run = 2 /\ Ended => code.errors = first.errors

\* A rule is about to look up a name the scope binds to Identifier::Unknown,
\* as a statement, as a variable of an expression, or as a type name.
UsesUnknown ==
  /\ status = "run"
  /\ stack # << >>
  /\ Top.fn \in { "simple_statement", "factor", "type_identifier" }
  /\ Top.pc = 0
  /\ code.lookahead.k = "Id"
  /\ ScopeGet(code.scope, code.lookahead.v) = << IdUnknown >>

\* C9: once an undeclared name was diagnosed and bound to
\* Identifier::Unknown, a later use of that name in the scope, as a
\* statement, as a variable of an expression or as a type name, records no
\* further diagnostic.
C9_NoRepeatedDiagnostic == [][ UsesUnknown => code'.errors = code.errors ]_vars

\* The diagnostics of the type checks.
TypeCheckTexts ==
  { "type mismatch in assignment",
    "values of different types cannot be compared",
    "type mismatch in procedure arguments",
    "the initial value in a for loop must have integer type",
    "the final value in a for loop must have integer type" }

\* A rule is about to check two types of which one is Type::Unknown: the
\* type the expression just parsed returned, or the type it is checked
\* against.
ChecksUnknown ==
  /\ status = "run"
  /\ stack # << >>
  /\ Top.pc > 0
  /\ ret.kind = "ok"
  /\ \/ /\ Top.fn = "assignment_statement"
        /\ (Top.l.variable_type = TypeUnknown \/ ret.val = TypeUnknown)
     \/ /\ Top.fn = "expression"
        /\ Top.pc = 2
        /\ (Top.l.type_a = TypeUnknown \/ ret.val = TypeUnknown)
     \/ /\ Top.fn \in { "procedure_statement", "initial_value", "final_value" }
        /\ ret.val = TypeUnknown

\* C10: a type check of which one side is Type::Unknown records no
\* diagnostic, in an assignment, in a relational comparison, for the
\* arguments of a procedure and for the initial and final values of a for
\* loop.
C10_UnknownNotDiagnosed ==
  [][ ChecksUnknown
        => \A i \in (Len(code.errors) + 1)..Len(code'.errors) :
             code'.errors[i].msg.text \notin TypeCheckTexts ]_vars

\* The Err of a panic() that found no token of its set.
FailedToRecover(r) ==
  /\ r.kind = "err"
  /\ r.err[1].msg.text =
       "failed to recover, none of the {:?} tokens are present in the stream"

\* program() is at its header, which fails, and the recovery to `type` or
\* `var` finds neither.
HeaderRecoveryFails ==
  /\ At("program") /\ Top.pc = 0 /\ code.lookahead # TEOF
  /\ ProgramHeader(code).kind = "err"
  /\ FailedToRecover(panic(ProgramHeader(code).c, { TK("type"), TK("var") }))

\* program() has its block's Err, and the recovery to `.` finds none.
BlockRecoveryFails ==
  /\ At("program") /\ Top.pc = 1 /\ ret.kind = "err"
  /\ FailedToRecover(panic(code, { TP("Dot") }))

\* C11 (as stated): a panic-mode recovery that finds no token of its set
\* before the end of the file is fatal: the rule returns the Err instead of
\* going on.
C11_FailedRecoveryFatal ==
  [][ HeaderRecoveryFails
        => /\ Len(stack') < Len(stack)
           /\ ret'.kind = "err" ]_vars

\* C11: when the recovery of program() after its block finds no `.` before
\* the end of the file, program() returns the `failed to recover` Err and
\* compile() returns it: no list of diagnostics is returned.
C11_BlockRecoveryFatal ==
  [][ /\ BlockRecoveryFails
        => /\ stack' = << [ fn |-> "compile", pc |-> 1, l |-> NoLocals ] >>
           /\ ret' = RetErr(panic(code, { TP("Dot") }).err[1])
           /\ status' = "run"
      /\ At("compile") /\ Top.pc = 1 /\ ret.kind = "err"
        => /\ status' = "fatal"
           /\ ret' = ret
           /\ stack' = << >> ]_vars

C11_FatalReached ==
  /\ status = "fatal"
  /\ FailedToRecover([ kind |-> ret.kind, err |-> ret.err ])
  /\ code.errors # << >>

\* Position p is not before position q in the file.
NotBefore(p, q) == p.line > q.line \/ (p.line = q.line /\ p.col >= q.col)

\* C12: the diagnostics are in the order of their positions in the source:
\* each diagnostic recorded has a (line, col) not before that of the one
\* recorded before it.
C12_DiagnosticsInOrder ==
  \A i \in 2..Len(code.errors) :
    NotBefore(code.errors[i].pos, code.errors[i - 1].pos)

\* The files of NoSemicolon have no other defect: with the `;`, they compile
\* without a diagnostic.
SoundWithSemicolon ==
  \A d \in SoundDecls :
    input = Src(<< "program", "p", ";" >> \o d \o << "begin", "end", "." >>)
      /\ Ended
      => status = "done" /\ code.errors = << >>

\* C15: a program whose only defect is that the `;` after its header is
\* missing yields exactly one diagnostic, a syntax error, and compile()
\* returns Ok, whether a type section, a var section or `begin` follows the
\* header.
C15_OneDiagnostic ==
  \A d \in SoundDecls :
    input = Src(NoSemicolon(d)) /\ Ended
      => /\ status = "done"
         /\ Len(code.errors) = 1
         /\ code.errors[1].kind = "SyntaxError"

\* The names of the field chain `.f1.f2...` that the tokens from the
\* lookahead of c on spell.
RECURSIVE ChainNames(_)

\* (p is proceed() past a `.`.)
ChainAfterDot(p) ==
  IF p.kind = "ok" /\ p.c.lookahead.k = "Id"
  THEN << p.c.lookahead.v >> \o ChainNames(proceed(p.c))
  ELSE << >>

\* (p is proceed() past a name.)
ChainNames(p) ==
  IF p.kind = "ok" /\ p.c.lookahead = TP("Dot")
  THEN ChainAfterDot(proceed(p.c))
  ELSE << >>

\* A value of type t has the field f.
HasField(t, f) == t.t = "Record" /\ f \in DOMAIN t.fields

\* The type of the chain of fields names of a value of type t: Unknown from
\* the first access on, if any, that is not to a field of a record.
RECURSIVE ChainType(_, _)
ChainType(t, names) ==
  IF names = << >> THEN t
  ELSE IF HasField(t, names[1]) THEN ChainType(t.fields[names[1]], Tail(names))
  ELSE ChainType(TypeUnknown, Tail(names))

\* The number of accesses of the chain that are not to a field of a record.
RECURSIVE ChainFaults(_, _)
ChainFaults(t, names) ==
  IF names = << >> THEN 0
  ELSE IF HasField(t, names[1])
       THEN ChainFaults(t.fields[names[1]], Tail(names))
       ELSE 1 + ChainFaults(TypeUnknown, Tail(names))

\* An assignment statement is about to parse its variable, which is
\* declared, and its field chain.
AtFieldChain ==
  /\ At("assignment_statement") /\ Top.pc = 0
  /\ code.lookahead.k = "Id"
  /\ ScopeGet(code.scope, code.lookahead.v) # << >>
  /\ ScopeGet(code.scope, code.lookahead.v)[1].k = "Variable"
  /\ ChainNames(proceed(code)) # << >>
  /\ variable(code).kind = "ok"

\* (t is the type of the variable, names its field chain, r what variable()
\* returns.)
ChainAgrees(t, names, r) ==
  /\ r.val[2] = ChainType(t, names)
  /\ Len(r.c.errors) = Len(code.errors) + ChainFaults(t, names)
  /\ \A i \in (Len(code.errors) + 1)..Len(r.c.errors) :
       r.c.errors[i].kind = "SemanticError"

\* C16: in the field chain of a variable, every access `.f` on a value that
\* is not a record and every access to a field that the record lacks
\* records a semantic error and makes the type of the chain Unknown; a
\* chain of declared fields through nested records records no diagnostic
\* and has the type of its last field.
C16_FieldChain ==
  AtFieldChain
    => ChainAgrees(ScopeGet(code.scope, code.lookahead.v)[1].t,
                   ChainNames(proceed(code)), variable(code))

\* expression() has the types of both operands of a relational operator:
\* Top.l.type_a and ret.val.
AtComparison == At("expression") /\ Top.pc = 2 /\ ret.kind = "ok"

\* C17: with a relational operator, the type of expression() is boolean
\* when the types of the operands are equal and not Unknown, and no
\* diagnostic is recorded; when they differ, one semantic error is recorded
\* and the type is Unknown.
C17_ComparisonType ==
  [][ AtComparison /\ status' = "run"
        => /\ Top.l.type_a = ret.val /\ ret.val # TypeUnknown
             => /\ ret' = RetOk(boolean)
                /\ code'.errors = code.errors
           /\ Top.l.type_a # ret.val
             => /\ ret' = RetOk(TypeUnknown)
                /\ Len(code'.errors) = Len(code.errors) + 1
                /\ SubSeq(code'.errors, 1, Len(code.errors)) = code.errors
                /\ code'.errors[Len(code'.errors)].kind = "SemanticError"
                /\ code'.errors[Len(code'.errors)].msg.text =
                     "values of different types cannot be compared" ]_vars

\* A comparison of operands of equal types has returned boolean to the
\* statement it is the condition of.
C17_BooleanReturned ==
  /\ status = "run"
  /\ ret = RetOk(boolean)
  /\ stack # << >>
  /\ Top.fn \in { "if_statement", "while_statement", "repeat_statement" }

\* assignment_statement has the types of its variable and of its
\* expression: Top.l.variable_type and ret.val.
AtAssignmentEnd == At("assignment_statement") /\ Top.pc = 1 /\ ret.kind = "ok"

BothResolved == Top.l.variable_type # TypeUnknown /\ ret.val # TypeUnknown

\* The fragment that local_set(name) writes at the current indentation.
LocalSetPart(name) ==
  [ Part("local.set", << >>, name) EXCEPT !.nl = code.wasm.output.indent ]

\* C18: assignment_statement emits local.set (calls the emitter's
\* local_set, which writes the instruction unless the emitter is silenced)
\* exactly when the types of the variable and of the expression are both
\* resolved and equal; when both are resolved and differ, it records
\* exactly one semantic error and emits no local.set.
C18_AssignmentEmits ==
  [][ AtAssignmentEnd
        => /\ BothResolved /\ Top.l.variable_type = ret.val
             => /\ code'.wasm = WasmLocalSet(code.wasm, Top.l.name)
                /\ ~WasmOff(code.wasm)
                     => code'.wasm.output.parts =
                          Append(code.wasm.output.parts, LocalSetPart(Top.l.name))
                /\ code'.errors = code.errors
           /\ ~(BothResolved /\ Top.l.variable_type = ret.val)
             => code'.wasm.output = code.wasm.output
           /\ BothResolved /\ Top.l.variable_type # ret.val
             => /\ Len(code'.errors) = Len(code.errors) + 1
                /\ SubSeq(code'.errors, 1, Len(code.errors)) = code.errors
                /\ code'.errors[Len(code'.errors)].kind = "SemanticError"
                /\ code'.errors[Len(code'.errors)].msg.text =
                     "type mismatch in assignment"
           /\ ~BothResolved => code'.errors = code.errors ]_vars

\* An assignment of a value of the variable's type has written its
\* local.set, the last fragment written.
C18_LocalSetWritten ==
  /\ status = "run"
  /\ stack # << >> /\ Top.fn = "compound_statement"
  /\ ~code.wasm.silenced
  /\ code.wasm.output.parts # << >>
  /\ code.wasm.output.parts[Len(code.wasm.output.parts)].op = "local.set"

\* type_definition has the type it defines (ret.val) and puts the name
\* Top.l.id in the scope.
AtPut == At("type_definition") /\ Top.pc = 1 /\ ret.kind = "ok"

Innermost == code.scope[Len(code.scope)]

TypeOfVariable(scope, name) ==
  IF ScopeGet(scope, name) # << >> /\ ScopeGet(scope, name)[1].k = "Variable"
  THEN ScopeGet(scope, name)[1].t
  ELSE TypeUnknown

\* The types of the variables `r1, ..., rn` that the tokens from the
\* lookahead of p.c on list.
RECURSIVE ListedTypes(_)

\* (p is proceed() past a name.)
ListedAfter(p) ==
  IF p.kind = "ok" /\ p.c.lookahead = TP("Comma") THEN ListedTypes(proceed(p.c)) ELSE << >>

\* (p is proceed() past `with` or a comma.)
ListedTypes(p) ==
  IF p.kind = "ok" /\ p.c.lookahead.k = "Id"
  THEN << TypeOfVariable(p.c.scope, p.c.lookahead.v) >> \o ListedAfter(proceed(p.c))
  ELSE << >>

\* The field names of the records of types.
FieldsOf(types) == UNION { DOMAIN types[i].fields : i \in 1..Len(types) }

\* The index of the rightmost record of types that has the field f.
Rightmost(types, f) ==
  CHOOSE i \in 1..Len(types) :
    /\ f \in DOMAIN types[i].fields
    /\ \A j \in (i + 1)..Len(types) : f \notin DOMAIN types[j].fields

\* A with statement is about to parse its list, which is of variables that
\* are records.
AtWith ==
  /\ At("with_statement") /\ Top.pc = 0
  /\ code.lookahead = TK("with")
  /\ ListedTypes(proceed(code)) # << >>
  /\ \A i \in 1..Len(ListedTypes(proceed(code))) : ListedTypes(proceed(code))[i].t = "Record"

\* (types are the types of the records listed.)
LastWins(types) ==
  /\ Len(code'.scope) = Len(code.scope) + 1
  /\ DOMAIN code'.scope[Len(code'.scope)] = FieldsOf(types)
  /\ \A f \in FieldsOf(types) :
       code'.scope[Len(code'.scope)][f] =
         IdVariable(f, types[Rightmost(types, f)].fields[f])
  /\ code'.errors = code.errors

\* C20: in `with r1, ..., rn do S`, a field name that several of the
\* records listed have is bound inside S to the type the field has in the
\* rightmost of them, and no diagnostic is recorded for the collision.
C20_WithLastWins ==
  [][ AtWith /\ Len(stack') > Len(stack) => LastWins(ListedTypes(proceed(code))) ]_vars

\* Inside `with a, b do`, f is the real field of b and not the integer field
\* of a, and no diagnostic is recorded.
C20_FieldShadowed ==
  /\ status = "run"
  /\ Len(code.scope) = 3
  /\ << "f" >> \in DOMAIN code.scope[3]
  /\ code.scope[3][<< "f" >>] = IdVariable(<< "f" >>, TypeReal)
  /\ << "a" >> \in DOMAIN code.scope[2]
  /\ code.scope[2][<< "a" >>].t.t = "Record"
  /\ << "f" >> \in DOMAIN code.scope[2][<< "a" >>].t.fields
  /\ code.scope[2][<< "a" >>].t.fields[<< "f" >>] = TypeInteger
  /\ code.errors = << >>

\* C24: the scope a with statement pushed is discarded when its inner
\* statement has been parsed, whether the statement succeeded or failed: the
\* rule returns with the scope chain it was entered with, so that a field
\* name it introduced resolves no longer in the statements that follow.
C24_WithScopeDiscarded ==
  [][ At("with_statement") /\ Top.pc = 1 /\ Len(stack') < Len(stack)
        => code'.scope = ScopeCollapse(code.scope) ]_vars

\* (c is the Code panic(sync_set) was called on, r what it returned.)
LandedIn(c, r, sync_set) ==
  r.kind = "ok"
    => /\ r.c.lookahead \in sync_set
       /\ BufShift(r.c.token_stream.buffer) > BufShift(c.token_stream.buffer)

\* A rule holds the Err of the rule it called and is about to recover from
\* it with panic(): program() after its block, block() after its type
\* definitions, block() after its variable declarations.
AtRecovery(fn, pc) == At(fn) /\ Top.pc = pc /\ ret.kind = "err"

\* C28: when panic(sync_set) returns Ok, the new lookahead is a member of
\* sync_set, read from the stream behind the tokens that preceded it; panic
\* never returns Ok with a lookahead outside sync_set.
C28_PanicLandsInSet ==
  /\ AtRecovery("program", 1)
       => LandedIn(code, panic(code, { TP("Dot") }), { TP("Dot") })
  /\ AtRecovery("block", 1)
       => LandedIn(code, panic(code, { TK("var"), TK("begin") }),
                   { TK("var"), TK("begin") })
  /\ AtRecovery("block", 2)
       => LandedIn(code, panic(code, { TK("begin"), TP("Semicolon") }),
                   { TK("begin"), TP("Semicolon") })

\* block() recovers from its variable declarations: the lookahead is not a
\* token of the set, and panic() returns Ok.
C28_Recovers ==
  /\ AtRecovery("block", 2)
  /\ code.lookahead \notin { TK("begin"), TP("Semicolon") }
  /\ panic(code, { TK("begin"), TP("Semicolon") }).kind = "ok"

\* The scopes of the chain that bind name, by their depth.
Binders(scope, name) == { i \in 1..Len(scope) : name \in DOMAIN scope[i] }

\* The names the chain binds, and one that no scope binds.
Looked(scope) ==
  UNION { DOMAIN scope[i] : i \in 1..Len(scope) } \cup { << "z", "z" >> }

\* get(name) is the binding of the innermost scope that binds name, and
\* None when no scope of the chain binds it.
GetsInnermost(scope, name) ==
  IF Binders(scope, name) = { }
  THEN ScopeGet(scope, name) = << >>
  ELSE \E i \in Binders(scope, name) :
         /\ \A j \in Binders(scope, name) : j <= i
         /\ ScopeGet(scope, name) = << scope[i][name] >>

\* The scopes under the innermost one, before and after a step that pushes a
\* scope, collapses one or inserts, are what they were.
OuterKept ==
  \A i \in 1..(Min(Len(code.scope), Len(code'.scope)) - 1) :
    code'.scope[i] = code.scope[i]

\* C29: Scope.get returns the binding of the innermost scope that binds the
\* name, walking the chain outwards, and None iff no scope binds it; an
\* insertion changes the innermost scope only, so that the outer scopes are
\* after a collapse exactly what they were.
C29_ScopeChain ==
  /\ [](status = "run" => \A name \in Looked(code.scope) : GetsInnermost(code.scope, name))
  /\ [][ status = "run" /\ run' = run => OuterKept ]_vars

\* The program's scope binds a name of the default scope anew, and get
\* returns the binding of the program's scope.
C29_Shadowed ==
  /\ status = "run"
  /\ Len(code.scope) = 2
  /\ \E name \in DOMAIN code.scope[1] \cap DOMAIN code.scope[2] :
       /\ code.scope[2][name] # code.scope[1][name]
       /\ ScopeGet(code.scope, name) = << code.scope[2][name] >>

\* The types the emit primitives are called with below.
EmitTypes == { TypeInteger, TypeReal, TypeUnknown }

\* What each emit primitive of Wasm makes of the emitter w, called with the
\* type t (and a name, a value, an operator, labels, which a silenced
\* emitter does not look at).
Emitted(w, t) ==
  { WasmModStart(w), WasmModEnd(w),
    WasmFuncImport(w, << "f" >>, << t >>), WasmFuncStart(w, << "f" >>, TRUE),
    WasmFuncStart(w, << "f" >>, FALSE), WasmFuncLocal(w, << "a" >>, t),
    WasmFuncEnd(w),
    WasmConstant(w, << "1" >>, t), WasmLocalGet(w, << "a" >>),
    WasmLocalSet(w, << "a" >>),
    WasmOp(w, "Plus", t), WasmRelop(w, "Eq", t), WasmEqz(w, t),
    WasmIfStart(w), WasmThenStart(w), WasmThenEnd(w), WasmElseStart(w),
    WasmElseEnd(w), WasmIfEnd(w),
    WasmLoopStart(w, << "c" >>, << "e" >>), WasmLoopEnd(w),
    WasmBr(w, << "e" >>), WasmBrIf(w, << "e" >>), WasmCall(w, << "f" >>),
    WasmFillNearestUnknown(w, t) }

\* C30: while the emitter is silenced, every emit primitive of Wasm is a
\* no-op: it leaves the emitter, its list of fragments included, as it was.
C30_SilencedNoOp ==
  status = "run" /\ code.wasm.silenced
    => \A t \in EmitTypes : Emitted(code.wasm, t) = { code.wasm }

\* The fragments `UNKNOWN.const 0` of parts, by their index: the
\* placeholders of leading minus signs that are not patched yet.
Placeholders(parts) ==
  { i \in 1..Len(parts) :
      /\ parts[i].op = ".const"
      /\ parts[i].name = << "0" >>
      /\ parts[i].types = << TEMPLATE >> }

\* simple_expression has the type of the term that follows its minus, and
\* the emitter, which is on, has a type name for it.
AtNegatedTerm ==
  /\ At("simple_expression") /\ Top.pc = 1 /\ Top.l.negative
  /\ ret.kind = "ok"
  /\ ~WasmOff(code.wasm)
  /\ WasmTypename(ret.val) # << >>
  /\ Placeholders(code.wasm.output.parts) # { }

\* (i is the index of the placeholder of the minus.)
PatchedAt(i) ==
  /\ code'.wasm.output.parts[i].types = WasmTypename(ret.val)
  /\ \A j \in 1..Len(code.wasm.output.parts) :
       j # i => code'.wasm.output.parts[j] = code.wasm.output.parts[j]

\* C31: the placeholder of a leading minus, the most recent `UNKNOWN.const
\* 0`, is patched with the type name of the term that follows that minus,
\* and no other fragment recorded so far is changed.
C31_PlaceholderPatched ==
  [][ AtNegatedTerm
        => \E i \in Placeholders(code.wasm.output.parts) :
             /\ \A j \in Placeholders(code.wasm.output.parts) : j <= i
             /\ PatchedAt(i) ]_vars

\* How many enumerators are declared before name in enum.
Preceding(enum, name) ==
  Cardinality({ q \in 1..Len(enum) : \A k \in 1..q : enum[k] # name })

\* factor is at an identifier; the token after it is read without an error.
AtFactorName ==
  /\ At("factor") /\ Top.pc = 0
  /\ code.lookahead.k = "Id"
  /\ proceed(code).kind = "ok"

\* The identifier names an enumerator of the scalar type expected.
NamesEnumerator ==
  /\ Top.l.expected_type.t = "Scalar"
  /\ \E p \in 1..Len(Top.l.expected_type.enum) :
       Top.l.expected_type.enum[p] = code.lookahead.v

\* The emitter, when it is on, has got the fragment `op name` of types.
Received(op, types, name) ==
  ~WasmOff(code.wasm)
    => /\ Len(code'.wasm.output.parts) = Len(code.wasm.output.parts) + 1
       /\ LET part == code'.wasm.output.parts[Len(code'.wasm.output.parts)]
          IN  /\ part.op = op
              /\ part.types = types
              /\ part.name = name

\* (v is what variable() returns on the identifier.)
ResolvedAs(v) ==
  /\ ret'.kind = v.kind
  /\ v.kind = "ok"
       => /\ ret'.val = v.val[2]
          /\ Received("local.get", << >>, v.val[1])

\* C32: in factor(expected), an identifier that names an enumerator of
\* expected = Scalar(enumerators) makes the emitter receive the integer
\* constant of its 0-based position in the declared order, and the type of
\* the factor is expected; any other identifier is resolved by variable
\* lookup.
C32_EnumeratorConstant ==
  [][ AtFactorName
        => IF NamesEnumerator
           THEN /\ ret'.kind = "ok"
                /\ ret'.val = Top.l.expected_type
                /\ Received(".const", << "i32" >>,
                            to_string(Preceding(Top.l.expected_type.enum,
                                                code.lookahead.v)))
           ELSE ResolvedAs(variable(code)) ]_vars

\* The factor `v` of `a := v`, a of the type (u, v), has returned: the
\* emitter has received `i32.const 1`, and the type is the scalar type.
C32_SecondEnumerator ==
  /\ status = "run"
  /\ ret.kind = "ok"
  /\ ret.val = TypeScalar(<< << "u" >>, << "v" >> >>)
  /\ ~WasmOff(code.wasm)
  /\ code.wasm.output.parts # << >>
  /\ LET part == code.wasm.output.parts[Len(code.wasm.output.parts)]
     IN  part.op = ".const" /\ part.types = << "i32" >> /\ part.name = << "1" >>

\* A rule holds the Err of a lexical error, which proceed() returned from
\* the token stream.
HoldsLexicalError ==
  /\ status = "run"
  /\ ret.kind = "err"
  /\ ret.err[1].kind = "LexicalError"

\* C33: a lexical error the token stream raised during the compilation is
\* not dropped by a recovery: the rule that holds it returns it to its
\* caller, compile() included, or it is in the list of diagnostics.
C33_LexicalErrorKept ==
  [][ HoldsLexicalError
        => \/ ret'.kind = "err" /\ ret'.err = ret.err
           \/ \E i \in 1..Len(code'.errors) : code'.errors[i] = ret.err[1] ]_vars

\* C34: when compile() returns Ok with an empty list of diagnostics, every
\* type placeholder was resolved: no fragment written to the sink contains
\* the marker UNKNOWN.
C34_NoPlaceholderWritten ==
  mode = "compile" /\ status = "done" /\ code.errors = << >>
    => \A i \in 1..Len(code.wasm.output.written) :
         ~PartContains(code.wasm.output.written[i], TEMPLATE)

\* C35: the recovery to EOF after a missing final `.` always succeeds: the
\* step of program() that consumes the `.`, or recovers to EOF, and unwraps
\* the result with expect("EOF not found in the stream") never aborts.
C35_EOFRecoverySucceeds ==
  [][ At("program") /\ Top.pc = 1 => status' # "abort" ]_vars

\* C36: check() and compile() return the same result on every input, the
\* same list of diagnostics or the same fatal error: when check() has
\* ended on a file compile() was run on before, it has ended as compile()
\* did, with the diagnostics compile() had.
C36_CheckAsCompile ==
  run = 3 /\ Ended
    => /\ first.status = status
       /\ first.errors = code.errors

\* A rule that begins with a factor is entered at the operator `not`: an
\* expression through simple_expression, a term, a factor.
AtNot ==
  /\ status = "run" /\ stack # << >>
  /\ Top.fn \in { "simple_expression", "term", "factor" }
  /\ Top.pc = 0
  /\ code.lookahead = TO("Not")

\* C38: `not` factor is accepted wherever the grammar allows a factor, as
\* the first factor of an expression too: the rule entered at `not` records
\* no diagnostic and does not fail.
C38_NotAccepted ==
  [][ AtNot => code'.errors = code.errors /\ ret'.kind # "err" ]_vars

\* The fragments the emitter received in the step, each as
\* << op, types, name >>.
Fragments ==
  LET old == code.wasm.output.parts
      new == code'.wasm.output.parts
  IN  [ i \in 1..(Len(new) - Len(old)) |->
          << new[Len(old) + i].op, new[Len(old) + i].types,
             new[Len(old) + i].name >> ]

\* The rule fn at position pc takes an error-free step with the emitter on.
CleanStep(fn, pc) ==
  /\ At(fn) /\ Top.pc = pc
  /\ ~WasmOff(code.wasm) /\ ~WasmOff(code'.wasm)
  /\ code'.errors = code.errors
  /\ ret'.kind = "ok"
  /\ status' = "run"

\* The rule on top of the stack after the step, and its position.
Enters(fn, pc) == stack' # << >> /\ Top'.fn = fn /\ Top'.pc = pc

LocalGetOf(name) == << "local.get", << >>, name >>

LocalSetOf(name) == << "local.set", << >>, name >>

StepOf(direction) ==
  IF direction = TK("to") THEN << "1" >> ELSE << "-", "1" >>

\* C39: for an error-free for statement the emitter receives, in this
\* order: local.get $r0; the initial value; local.set of the control
\* variable; the final value; local.set $r0; the loop start; local.get $r0,
\* local.get control, i32.eq, br_if $end; the body; the step constant (1 for
\* to, -1 for downto), local.get control, i32.add, local.set control;
\* br $continue; the loop end; local.set $r0.
C39_ForEmission ==
  [][ /\ CleanStep("for_statement", 0)
        => /\ Fragments = << LocalGetOf(R0) >>
           /\ Enters("for_list", 0)
      /\ CleanStep("for_list", 0)
        => /\ Fragments = << >>
           /\ Enters("initial_value", 0)
      /\ CleanStep("for_list", 1)
        => /\ Fragments = << LocalSetOf(Top.l.control_var_name) >>
           /\ Enters("final_value", 0)
      /\ CleanStep("for_list", 2)
        => /\ Fragments = << LocalSetOf(R0) >>
           /\ Enters("for_statement", 1)
      /\ CleanStep("for_statement", 1)
        => /\ Fragments = << << "(block", << >>, END >>,
                              << "(loop", << >>, CONTINUE >>,
                              LocalGetOf(R0), LocalGetOf(Top.l.n),
                              << ".eq", << "i32" >>, << >> >>,
                              << "br_if", << >>, END >> >>
           /\ Enters("statement", 0)
      /\ CleanStep("for_statement", 2)
        => /\ Top.l.direction \in { TK("to"), TK("downto") }
           /\ Fragments = << << ".const", << "i32" >>, StepOf(Top.l.direction) >>,
                              LocalGetOf(Top.l.n),
                              << ".add", << "i32" >>, << >> >>,
                              LocalSetOf(Top.l.n),
                              << "br", << >>, CONTINUE >>,
                              << ")", << >>, << >> >>,
                              << ")", << >>, << >> >>,
                              LocalSetOf(R0) >>
    ]_vars

\* A for statement that is the body of another one has been compiled: the
\* inner one has restored r0 and the outer one is still to do so.
C39_InnerRestored ==
  /\ status = "run"
  /\ ~WasmOff(code.wasm) /\ code.errors = << >>
  /\ \E i \in 1..Len(stack) :
       stack[i].fn = "for_statement" /\ stack[i].pc = 2 /\ stack[i].l.n = << "i" >>
  /\ LET parts == code.wasm.output.parts
     IN  /\ Len(parts) > 8
         /\ parts[Len(parts)].op = "local.set" /\ parts[Len(parts)].name = R0
         /\ parts[Len(parts) - 1].op = ")"
         /\ parts[Len(parts) - 7].name = << "-", "1" >>

(***************************************************************************)
(* Properties of the token stream (specification SpecLex).                 *)
(***************************************************************************)

\* The turns of `next` compose to TsNext: a call that returns has returned
\* what TsNext yields on the stream the call began with.
NextAgrees ==
  [][ status = "lex" /\ Len(hist') > Len(hist)
        => Step(ts', hist'[Len(hist')]) = TsNext(from') ]_vars

\* A call that spins goes on spinning, whatever number of turns it takes.
SpinsOn ==
  [][ lpc = "next" /\ TsSpins(ts) => lpc' = "next" /\ TsSpins(ts') ]_vars

\* C4: every call of next() terminates, with a token or a lexical error, on
\* every finite input, the inputs that end in the middle of a token
\* included: a call in progress is one that returns.
C4_NextReturns == lpc = "next" => TsNext(ts).out.kind \in { "tok", "err" }

\* What a client observes of the stream: shift(), pos(), prev_pos() and the
\* state of the lexer.
Observed(t) ==
  [ shift |-> BufShift(t.buffer), pos |-> TsPos(t), prev_pos |-> TsPrevPos(t),
    state |-> t.state ]

\* C6: a call of available() that returns a result leaves shift(), pos(),
\* prev_pos() and the state of the lexer as they were before the call.
C6_AvailableNoNetChange ==
  [][ probe = << >> /\ probe' # << >> /\ probe'[1].kind = "ok"
        => Observed(ts') = Observed(ts) ]_vars

\* Whether a token of token_set is among the tokens next() returns from t
\* on, up to the EOF token and the EOF token included, in at most n calls.
RECURSIVE Among(_, _, _)

\* (r is what the call of next() returned.)
AmongOn(r, token_set, n) ==
  IF r.out.kind # "tok" THEN FALSE
  ELSE IF r.out.tok \in token_set THEN TRUE
  ELSE IF r.out.tok = TEOF \/ n <= 1 THEN FALSE
  ELSE Among(r.ts, token_set, n - 1)

Among(t, token_set, n) == AmongOn(TsNext(t), token_set, n)

\* C7: available(set) terminates on every finite input, and returns true
\* exactly when a token of set is among the tokens not yet consumed, before
\* EOF, or EOF is reached and is in set; otherwise it returns false.
C7_AvailableDecides ==
  \A i \in 1..Len(probe) :
    /\ probe[i].kind = "ok"
    /\ probe[i].result =
         Among(probe[i].before, probe[i].token_set, Len(input) + 1)

\* The first n results of next() on the stream t.
RECURSIVE TokensFrom(_, _)

\* (r is what the call of next() returned.)
TokensOn(r, n) ==
  IF r.out.kind = "hang" THEN << >> ELSE << r.out >> \o TokensFrom(r.ts, n - 1)

TokensFrom(t, n) == IF n = 0 THEN << >> ELSE TokensOn(TsNext(t), n)

\* The tokens of results, without the positions of the errors.
Kinds(results) ==
  [ i \in 1..Len(results) |-> [ kind |-> results[i].kind, tok |-> results[i].tok ] ]

Braces(data) == { i \in 1..Len(data) : data[i] \in { "{", "}" } }

\* A byte that ends the token before it and begins one of its own, if any.
Delimits(c) == IsWhitespace(c) \/ c \in SingleBytes

HasToken(data) == \E k \in 1..Len(data) : ~IsWhitespace(data[k])

\* data is a file with one comment, data[i] to data[j], that stands between
\* two tokens: there is a token before it and one after it, and without the
\* comment the byte before it and the byte after it belong to two tokens.
CommentAt(data, i, j) ==
  /\ i < j
  /\ data[i] = "{"
  /\ data[j] = "}"
  /\ Braces(data) = { i, j }
  /\ \A k \in 1..Len(data) : data[k] # "'"
  /\ HasToken(SubSeq(data, 1, i - 1))
  /\ HasToken(SubSeq(data, j + 1, Len(data)))
  /\ (Delimits(data[i - 1]) \/ Delimits(data[j + 1]))

CommentBetweenTokens(data) == \E i, j \in 1..Len(data) : CommentAt(data, i, j)

Cut(data, i, j) == SubSeq(data, 1, i - 1) \o SubSeq(data, j + 1, Len(data))

\* The file without its comment.
WithoutComment(data) ==
  Cut(data, CHOOSE i \in Braces(data) : data[i] = "{",
            CHOOSE j \in Braces(data) : data[j] = "}")

LineOf(data, i) == 1 + Cardinality({ j \in 1..(i - 1) : data[j] = LF })

ColOf(data, i) ==
  Cardinality({ j \in 1..i : \A k \in j..(i - 1) : data[k] # LF })

TruePos(data, i) == [ line |-> LineOf(data, i), col |-> ColOf(data, i) ]

\* next() has just returned a token that has a lexeme, on a stream on which
\* available() was not called.
TokenReturned ==
  /\ status = "lex" /\ lpc = "idle" /\ probe = << >> /\ hist # << >>
  /\ hist[Len(hist)].kind = "tok"
  /\ hist[Len(hist)].tok # TEOF

\* The index in the file of the last byte of the lexeme of that token.
LexemeEnd == Min(BufShift(ts.buffer), Len(input))

RECURSIVE DigitRun(_, _)
DigitRun(data, i) ==
  IF i <= Len(data) /\ IsNumeric(data[i]) THEN 1 + DigitRun(data, i + 1) ELSE 0

\* The length of a fraction `.digits` at byte i, 0 if there is none.
FractionAt(data, i) ==
  IF i <= Len(data) /\ data[i] = "." /\ DigitRun(data, i + 1) > 0
  THEN 1 + DigitRun(data, i + 1)
  ELSE 0

\* The length of an exponent `e[+-]digits` at byte i, 0 if there is none.
ExponentAt(data, i) ==
  IF i <= Len(data) /\ ToLower(data[i]) = "e"
  THEN IF i + 1 <= Len(data) /\ data[i + 1] \in { "+", "-" }
       THEN IF DigitRun(data, i + 2) > 0 THEN 2 + DigitRun(data, i + 2) ELSE 0
       ELSE IF DigitRun(data, i + 1) > 0 THEN 1 + DigitRun(data, i + 1) ELSE 0
  ELSE 0

\* The length of the longest numeric literal (integer, real, real with
\* exponent) that starts at byte i.
RealAt(data, i, int, frac) ==
  int + frac + (IF frac > 0 THEN ExponentAt(data, i + int + frac) ELSE 0)

LiteralAt(data, i) ==
  RealAt(data, i, DigitRun(data, i), FractionAt(data, i + DigitRun(data, i)))

\* C14: the lexeme of a Number token is the lowercased bytes of the longest
\* numeric literal at its start, and the byte after the literal is left
\* unread; so an integer followed by `..` is that integer.
C14_NumberIsLiteral ==
  TokenReturned /\ hist[Len(hist)].tok.k = "Number"
    => /\ hist[Len(hist)].tok.v =
            ToLowerSeq(SubSeq(input, ts.lexeme_start + 1,
                              ts.lexeme_start
                                + LiteralAt(input, ts.lexeme_start + 1)))
       /\ LexemeEnd = ts.lexeme_start + LiteralAt(input, ts.lexeme_start + 1)

ToUpper(c) ==
  IF c \in Lowers
  THEN UpperSeq[CHOOSE i \in 1..Len(LowerSeq) : LowerSeq[i] = c]
  ELSE c

\* The files that differ from data by the case of letters only.
RECURSIVE CaseVariants(_)
CaseVariants(data) ==
  IF data = << >> THEN { << >> }
  ELSE { << c >> \o v : c \in { ToLower(data[1]), ToUpper(data[1]) },
                        v \in CaseVariants(Tail(data)) }

\* The stream t, over the file data.
WithStorage(t, data) == [ t EXCEPT !.buffer.storage = data ]

\* C21: the tokens of a source do not depend on the case of its letters:
\* on the same source with letters of its reserved words and identifiers in
\* the other case, each call of next() returns the same token (an
\* identifier in lower case, the same reserved word) or the same error, and
\* leaves the stream in the same state.
C21_CaseInsensitive ==
  [][ status = "lex" /\ Len(hist') > Len(hist)
        => \A v \in CaseVariants(input) :
             TsNext(WithStorage(from', v))
               = Step(WithStorage(ts', v), hist'[Len(hist')]) ]_vars

\* The reserved word `do` has been returned for `Do`, after the identifier b
\* for `B`.
C21_MixedCase ==
  /\ status = "lex" /\ lpc = "idle"
  /\ input = << "B", ":", "D", "o" >>
  /\ Len(hist) = 3
  /\ hist[1].tok = TId(<< "b" >>)
  /\ hist[3].tok = TK("do")

\* No call of available() has moved the stream since next() returned last.
JustReturned == \A i \in 1..Len(probe) : probe[i].at < Len(hist)

\* next() has just returned a lexical error, raised on a byte of the file.
ErrorReturned ==
  /\ status = "lex" /\ lpc = "idle" /\ hist # << >> /\ JustReturned
  /\ hist[Len(hist)].kind = "err"
  /\ BufShift(ts.buffer) <= Len(input)

\* C22: a lexical error carries the 1-based (line, col) of the byte whose
\* reading raised it, on whatever line of the file that byte is.
C22_ErrorAtByte ==
  ErrorReturned
    => hist[Len(hist)].err[1].pos = TruePos(input, BufShift(ts.buffer))

\* The byte at index i of the file, NUL outside it.
ByteAt(i) == IF i \in 1..Len(input) THEN input[i] ELSE NUL

\* The two-character symbols and the one-character symbols they begin with:
\* the token, and the bytes it is written with.
TwoByteSymbols ==
  { [ tok |-> TP("Range"),  b1 |-> ".", b2 |-> "." ],
    [ tok |-> TO("Assign"), b1 |-> ":", b2 |-> "=" ],
    [ tok |-> TR("Ne"),     b1 |-> "<", b2 |-> ">" ],
    [ tok |-> TR("Le"),     b1 |-> "<", b2 |-> "=" ],
    [ tok |-> TR("Ge"),     b1 |-> ">", b2 |-> "=" ] }

OneByteSymbols ==
  { [ tok |-> TP("Dot"),   b1 |-> "." ],
    [ tok |-> TP("Colon"), b1 |-> ":" ],
    [ tok |-> TR("Lt"),    b1 |-> "<" ],
    [ tok |-> TR("Gt"),    b1 |-> ">" ] }

\* next() has just returned the token tok.
NextReturned(tok) ==
  /\ status = "lex" /\ lpc = "idle" /\ hist # << >> /\ JustReturned
  /\ hist[Len(hist)].kind = "tok"
  /\ hist[Len(hist)].tok = tok

\* C23: maximal munch on the two-character symbols.  '..', ':=', '<>', '<='
\* and '>=' are returned as Range, Assign, Ne, Le and Ge, the stream standing
\* behind their second byte; Dot, Colon, Lt and Gt are returned only when the
\* byte that follows does not complete a two-character symbol, and that byte
\* has been given back: the stream stands behind the one-character symbol.
C23_MaximalMunch ==
  /\ \A s \in TwoByteSymbols :
       NextReturned(s.tok) =>
         /\ ByteAt(BufShift(ts.buffer) - 1) = s.b1
         /\ ByteAt(BufShift(ts.buffer)) = s.b2
  /\ \A s \in OneByteSymbols :
       NextReturned(s.tok) =>
         /\ ByteAt(BufShift(ts.buffer)) = s.b1
         /\ \A l \in TwoByteSymbols :
              l.b1 = s.b1 => ByteAt(BufShift(ts.buffer) + 1) # l.b2

\* ':' before '<>': Colon, the '<' read after it given back, then Ne.
C23_ColonThenNe ==
  /\ status = "lex" /\ lpc = "idle"
  /\ input = << ":", "<", ">" >>
  /\ Len(hist) = 2
  /\ hist[1].tok = TP("Colon")
  /\ hist[2].tok = TR("Ne")

\* C25: every call of next() begins in state 1: whenever next() has
\* returned, with a token or with an error, the state of the lexer is 1.
C25_ReturnsInStateOne == status = "lex" /\ lpc = "idle" => ts.state = 1

IsEOF(out) == out.kind = "tok" /\ out.tok = TEOF

\* (outs are the results of consecutive calls of next().)
EOFThenOnlyEOF(outs) ==
  /\ \E i \in 1..Len(outs) : IsEOF(outs[i])
  /\ \A i, j \in 1..Len(outs) : i < j /\ IsEOF(outs[i]) => IsEOF(outs[j])

\* C26: repeated calls of next() eventually return EOF, and once EOF has
\* been returned every later call returns EOF.  A call that does not return
\* EOF has read a byte of the file, so that "eventually" is within
\* Len(input) + 1 calls; one call more shows the EOF repeated.
C26_ReachesEOF ==
  status = "lex" /\ lpc = "idle"
    => EOFThenOnlyEOF(TokensFrom(ts, Len(input) + 2))

\* (b is a buffer, r what next() returns on it.)
RewindRestores(b, r) ==
  /\ BufShift(BufBack(r.b, 1)) = BufShift(b)
  /\ BufPos(BufBack(r.b, 1)) = BufPos(b)

\* C27: rewind is symmetric: from any state of the buffer and whatever byte
\* is read, an ordinary one, a line feed or the NUL past the end of the
\* file, next() followed by back(1) restores both shift() and pos().
C27_RewindSymmetric ==
  status = "lex" => RewindRestores(ts.buffer, BufNext(ts.buffer))

(***************************************************************************)
(* Properties of the compiler (specification Spec) that are stated with    *)
(* the operators on token streams above.                                   *)
(***************************************************************************)

\* (c is the Code panic(sync_set) was called on, r what it returned.)
\* No token of sync_set is left: the lookahead is none, and none is among
\* the tokens the stream has yet to return.
FailedWithout(c, r, sync_set) ==
  FailedToRecover(r)
    => /\ c.lookahead \notin sync_set
       /\ ~Among(c.token_stream, sync_set, Len(input) + 1)

\* C37: panic(sync_set) fails with the fatal `failed to recover` error only
\* if no token of sync_set occurs in the input that is not consumed yet,
\* the current lookahead included.
C37_FailsOnlyWithout ==
  /\ AtRecovery("program", 1)
       => FailedWithout(code, panic(code, { TP("Dot") }), { TP("Dot") })
  /\ AtRecovery("block", 1)
       => FailedWithout(code, panic(code, { TK("var"), TK("begin") }),
                        { TK("var"), TK("begin") })
  /\ AtRecovery("block", 2)
       => FailedWithout(code, panic(code, { TK("begin"), TP("Semicolon") }),
                        { TK("begin"), TP("Semicolon") })

====
